---------------------------- MODULE Spec2Model ----------------------------
(***************************************************************************)
(* JSON Formatter Pro: the structural diff engine and similarity score of  *)
(* utils/formatter.js, the JSONPath-lite evaluator of utils/query.js, the  *)
(* popup handlers that call them and the auto-format listener of the JSON  *)
(* input.                                                                  *)
(*                                                                         *)
(* JavaScript strings are sequences of one-character strings, so that      *)
(* slicing, scanning and concatenation are modelled by what they do.       *)
(* JavaScript values are records tagged by the field t.                    *)
(***************************************************************************)
EXTENDS Integers, Sequences, FiniteSets, TLC

(***************************************************************************)
(* Bounds of the value universe.                                           *)
(***************************************************************************)
MaxNum == 2
MaxLen == 2
MaxIndex == 3
MaxPathLen == 3

(***************************************************************************)
(* JavaScript values.  JSON values are null, booleans, numbers, strings,   *)
(* arrays and objects (an object is the sequence of its own enumerable     *)
(* entries in insertion order).  Undefined, NaN, function values and       *)
(* Object.prototype are not JSON but are what property reads and parseInt  *)
(* can produce.                                                            *)
(***************************************************************************)
Null == [t |-> "null"]
Undefined == [t |-> "undef"]
NaN == [t |-> "nan"]
FunctionValue == [t |-> "fun"]
ObjectPrototype == [t |-> "objproto"]
Bool(b) == [t |-> "bool", v |-> b]
Num(n) == [t |-> "num", v |-> n]
Str(s) == [t |-> "str", v |-> s]
Arr(s) == [t |-> "arr", v |-> s]
Obj(es) == [t |-> "obj", v |-> es]
Entry(key, value) == [k |-> key, val |-> value]

IsNull(x) == x.t = "null"
IsArray(x) == x.t = "arr"

\* typeof x
TypeOf(x) ==
  CASE x.t \in {"null", "arr", "obj", "objproto"} -> "object"
    [] x.t \in {"num", "nan"} -> "number"
    [] x.t = "str" -> "string"
    [] x.t = "bool" -> "boolean"
    [] x.t = "fun" -> "function"
    [] OTHER -> "undefined"

\* x.length of an array
Length(x) == Len(x.v)

\* x[i] of an array, i counted from 0; undefined outside 0 .. length-1
At(x, i) == IF i >= 0 /\ i < Len(x.v) THEN x.v[i + 1] ELSE Undefined

\* Object.keys(x): the own enumerable keys in insertion order
Keys(x) == IF x.t = "obj" THEN [i \in 1..Len(x.v) |-> x.v[i].k] ELSE <<>>

\* Object.values(x)
Values(x) == IF x.t = "obj" THEN [i \in 1..Len(x.v) |-> x.v[i].val] ELSE <<>>

HasOwn(x, key) == x.t = "obj" /\ \E i \in 1..Len(x.v) : x.v[i].k = key

\* Names every object inherits from Object.prototype; "constructor" stands
\* for the inherited methods, "__proto__" is the inherited accessor.
ProtoConstructor == <<"c", "o", "n", "s", "t", "r", "u", "c", "t", "o", "r">>
ProtoProto == <<"_", "_", "p", "r", "o", "t", "o", "_", "_">>
InheritedKeys == {ProtoConstructor, ProtoProto}

\* key in x, for an object x: own or inherited
In(key, x) == HasOwn(x, key) \/ key \in InheritedKeys

\* x[key] for an object (or Object.prototype) x
Get(x, key) ==
  IF HasOwn(x, key)
  THEN LET i == CHOOSE j \in 1..Len(x.v) : x.v[j].k = key IN x.v[i].val
  ELSE IF key = ProtoProto
  THEN (IF x.t = "objproto" THEN Null ELSE ObjectPrototype)
  ELSE IF key \in InheritedKeys THEN FunctionValue
  ELSE Undefined

(***************************************************************************)
(* Text helpers.                                                           *)
(***************************************************************************)
DigitChars == <<"0", "1", "2", "3", "4", "5", "6", "7", "8", "9">>

\* String(n) for an integer n >= 0
RECURSIVE NatToString(_)
NatToString(n) ==
  IF n < 10 THEN <<DigitChars[n + 1]>>
  ELSE NatToString(n \div 10) \o <<DigitChars[(n % 10) + 1]>>

DigitValue(c) == (CHOOSE i \in 1..10 : DigitChars[i] = c) - 1

RECURSIVE DigitsToNat(_)
DigitsToNat(ds) ==
  IF ds = <<>> THEN 0
  ELSE 10 * DigitsToNat(SubSeq(ds, 1, Len(ds) - 1)) + DigitValue(ds[Len(ds)])

\* the first position of `text` holding a character of `stops`, or Len + 1
FirstOf(text, stops) ==
  IF \E i \in 1..Len(text) : text[i] \in stops
  THEN CHOOSE i \in 1..Len(text) :
         text[i] \in stops /\ \A j \in 1..(i - 1) : text[j] \notin stops
  ELSE Len(text) + 1

Max(a, b) == IF a >= b THEN a ELSE b
Min(a, b) == IF a <= b THEN a ELSE b

(***************************************************************************)
(* diffJSON (utils/formatter.js).  A change record is {type, path, old,    *)
(* new}; a field the code does not set reads as undefined.  The message    *)
(* text of a record is display only and is not modelled.                   *)
(***************************************************************************)
ChangedRec(path, o1, o2) == [type |-> "changed", path |-> path, old |-> o1, new |-> o2]
AddedRec(path, o2) == [type |-> "added", path |-> path, old |-> Undefined, new |-> o2]
RemovedRec(path, o1) == [type |-> "removed", path |-> path, old |-> o1, new |-> Undefined]

\* `${path}[${i}]`
IndexPath(path, i) == path \o <<"[">> \o NatToString(i) \o <<"]">>

\* path ? `${path}.${key}` : key
KeyPath(path, key) == IF path # <<>> THEN path \o <<".">> \o key ELSE key

\* a comparison that reports every pair of primitives as different
StrictNotEqualAlways(o1, o2) == TRUE

\* o1 !== o2 for two values of the same primitive typeof
StrictNotEqual(o1, o2) == o1 # o2

\* a loop bound that stops at the end of the shorter array
MaxLenOfShorter(o1, o2) == Min(Length(o1), Length(o2))

\* a loop bound that is the length of the left array
MaxLenOfLeft(o1, o2) == Length(o1)

\* Math.max(o1.length, o2.length)
MaxLenOf(o1, o2) == Max(Length(o1), Length(o2))

\* new Set(seq), iterated: the first occurrence of every element, in order
RECURSIVE Dedupe(_)
Dedupe(seq) ==
  IF seq = <<>> THEN <<>>
  ELSE LET front == Dedupe(SubSeq(seq, 1, Len(seq) - 1))
           last == seq[Len(seq)]
       IN IF \E i \in 1..Len(front) : front[i] = last THEN front
          ELSE Append(front, last)

\* a key union that starts with the right object's keys
AllKeysRightFirst(o1, o2) == Dedupe(Keys(o2) \o Keys(o1))

\* new Set([...keys1, ...keys2])
AllKeys(o1, o2) == Dedupe(Keys(o1) \o Keys(o2))

RECURSIVE Compare(_, _, _)
RECURSIVE CompareArray(_, _, _, _)
RECURSIVE CompareObject(_, _, _, _)

\* the array loop of compare from index i on
CompareArray(o1, o2, path, i) ==
  IF i >= MaxLenOf(o1, o2) THEN <<>>
  ELSE LET newPath == IndexPath(path, i)
           here == IF i >= Length(o1) THEN <<AddedRec(newPath, At(o2, i))>>
                   ELSE IF i >= Length(o2) THEN <<RemovedRec(newPath, At(o1, i))>>
                   ELSE Compare(At(o1, i), At(o2, i), newPath)
       IN here \o CompareArray(o1, o2, path, i + 1)

\* the object loop of compare over the keys still to visit
CompareObject(o1, o2, path, keys) ==
  IF keys = <<>> THEN <<>>
  ELSE LET key == Head(keys)
           newPath == KeyPath(path, key)
           here == IF ~In(key, o1) THEN <<AddedRec(newPath, Get(o2, key))>>
                   ELSE IF ~In(key, o2) THEN <<RemovedRec(newPath, Get(o1, key))>>
                   ELSE Compare(Get(o1, key), Get(o2, key), newPath)
       IN here \o CompareObject(o1, o2, path, Tail(keys))

\* compare(o1, o2, path): the records it pushes, in push order
Compare(o1, o2, path) ==
  IF IsNull(o1) /\ IsNull(o2) THEN <<>>
  ELSE IF IsNull(o1) \/ IsNull(o2) THEN <<ChangedRec(path, o1, o2)>>
  ELSE IF TypeOf(o1) # TypeOf(o2) THEN <<ChangedRec(path, o1, o2)>>
  ELSE IF TypeOf(o1) # "object"
  THEN (IF StrictNotEqual(o1, o2) THEN <<ChangedRec(path, o1, o2)>> ELSE <<>>)
  ELSE IF IsArray(o1) # IsArray(o2) THEN <<ChangedRec(path, o1, o2)>>
  ELSE IF IsArray(o1) THEN CompareArray(o1, o2, path, 0)
  ELSE CompareObject(o1, o2, path, AllKeys(o1, o2))

diffJSON(json1, json2) == Compare(json1, json2, <<>>)

(***************************************************************************)
(* calculateSimilarity (utils/formatter.js).                               *)
(***************************************************************************)
RECURSIVE SumSeq(_)
SumSeq(s) == IF s = <<>> THEN 0 ELSE Head(s) + SumSeq(Tail(s))

RECURSIVE countNodes(_)
countNodes(obj) ==
  IF IsNull(obj) \/ TypeOf(obj) # "object" THEN 1
  ELSE IF IsArray(obj)
  THEN 1 + SumSeq([i \in 1..Len(obj.v) |-> countNodes(obj.v[i])])
  ELSE Len(Keys(obj)) + SumSeq([i \in 1..Len(Values(obj)) |-> countNodes(Values(obj)[i])])

\* the rounded percentage without the clamp to 0..100
RoundedPercentUnclamped(num, den) == (200 * num + den) \div (2 * den)

(***************************************************************************)
(* The double arithmetic of (num / den) * 100 for 0 < num < den.  A double *)
(* has a significand of 53 bits; it is held here as five limbs, most       *)
(* significant first: the integer part, then four limbs of 13 fraction     *)
(* bits each (8192 = 2^13).  Both the division and the multiplication      *)
(* round their exact result to 53 bits, to nearest, ties to even.          *)
(***************************************************************************)
\* the least e >= 1 with num * 2^e >= den, so that num / den = m * 2^-e
\* with 1 <= m < 2
RECURSIVE BinaryExponent(_, _)
BinaryExponent(num, den) ==
  IF 2 * num >= den THEN 1 ELSE 1 + BinaryExponent(2 * num, den)

\* the remainder of the long division after k limbs of the quotient
RECURSIVE QuotientRemainder(_, _, _)
QuotientRemainder(r, den, k) ==
  IF k = 0 THEN r ELSE QuotientRemainder((r * 8192) % den, den, k - 1)

\* the k-th fraction limb of the quotient r / den, 0 <= r < den
QuotientLimb(r, den, k) == (QuotientRemainder(r, den, k - 1) * 8192) \div den

\* carry propagation from limb i towards the integer part
RECURSIVE Normalise(_, _)
Normalise(limbs, i) ==
  IF i = 1 \/ limbs[i] < 8192 THEN limbs
  ELSE Normalise([limbs EXCEPT ![i] = @ - 8192, ![i - 1] = @ + 1], i - 1)

\* the exact quotient (1 + r / den) cut after 52 fraction bits
TruncatedQuotient(r, den) ==
  <<1, QuotientLimb(r, den, 1), QuotientLimb(r, den, 2),
       QuotientLimb(r, den, 3), QuotientLimb(r, den, 4)>>

\* round to nearest, ties to even: the part cut off is rest / den of the last
\* bit kept
QuotientRoundsUp(last, rest, den) ==
  2 * rest > den \/ (2 * rest = den /\ last % 2 = 1)

\* the significand of the double num / den, where r = num * 2^e - den
SignificandOf(r, den) ==
  IF QuotientRoundsUp(QuotientLimb(r, den, 4), QuotientRemainder(r, den, 4), den)
  THEN Normalise([TruncatedQuotient(r, den) EXCEPT ![5] = @ + 1], 5)
  ELSE TruncatedQuotient(r, den)

\* the exact product limbs * 100, carried from limb i upwards
RECURSIVE TimesHundred(_, _, _)
TimesHundred(limbs, i, carry) ==
  IF i = 1 THEN [limbs EXCEPT ![1] = @ * 100 + carry]
  ELSE TimesHundred([limbs EXCEPT ![i] = (@ * 100 + carry) % 8192],
                    i - 1, (limbs[i] * 100 + carry) \div 8192)

\* rounding a product to 53 bits drops its lowest bits, unit = 2^dropped:
\* to nearest, ties to even
RoundLimb(limb, unit) ==
  IF 2 * (limb % unit) > unit
     \/ (2 * (limb % unit) = unit /\ (limb \div unit) % 2 = 1)
  THEN limb - (limb % unit) + unit
  ELSE limb - (limb % unit)

\* a product in 100 .. 200 has an integer part of 7 bits below 128 and of 8
\* bits from 128 on: 6 or 7 of its 52 fraction bits are dropped
RoundToDouble(product) ==
  Normalise([product EXCEPT
               ![5] = RoundLimb(@, IF product[1] < 128 THEN 64 ELSE 128)], 5)

\* Math.round of the double p * 2^-e, where whole is the integer part of p:
\* floor(x + 1/2), and the fraction bits of p cannot change the floor
RoundScaled(whole, e) == (whole + 2 ^ (e - 1)) \div (2 ^ e)

\* Math.round(Math.max(0, Math.min(100, (num / den) * 100))), den > 0:
\* a negative percentage is clamped to 0, num = den gives 100 exactly, and in
\* between the result is the rounding of the double (num / den) * 100
RoundedPercent(num, den) ==
  IF num <= 0 THEN 0
  ELSE IF num >= den THEN 100
  ELSE RoundScaled(
         RoundToDouble(
           TimesHundred(
             SignificandOf(num * 2 ^ BinaryExponent(num, den) - den, den),
             5, 0))[1],
         BinaryExponent(num, den))

\* a score that is 0 when there is nothing to compare
SimilarityOfZeroWhenEmpty(totalNodes, changeCount) ==
  IF totalNodes = 0 THEN 0
  ELSE RoundedPercent(totalNodes - changeCount * 2, totalNodes)

\* if (totalNodes === 0) return 100; otherwise the rounded, clamped percentage
SimilarityOf(totalNodes, changeCount) ==
  IF totalNodes = 0 THEN 100
  ELSE RoundedPercent(totalNodes - changeCount * 2, totalNodes)

calculateSimilarity(json1, json2) ==
  LET changes == diffJSON(json1, json2)
      totalNodes == countNodes(json1) + countNodes(json2)
      changeCount == Len(changes)
  IN SimilarityOf(totalNodes, changeCount)

(***************************************************************************)
(* Text primitives of JavaScript used by the query code.                   *)
(***************************************************************************)
Digits == {DigitChars[i] : i \in 1..10}
Letters ==
  {"a", "b", "c", "d", "e", "f", "g", "h", "i", "j", "k", "l", "m", "n", "o", "p", "q",
   "r", "s", "t", "u", "v", "w", "x", "y", "z", "N", "O"}
WordChars == Letters \cup Digits \cup {"_"}   \* \w
SpaceChars == {" "}                            \* \s
QuoteChars == {"'", "\""}

\* the characters of the model in code-unit order, for string comparison
CodeOrder ==
  <<" ", "!", "\"", "$", "'", "(", ")", "*", "+", ",", "-", ".", "0", "1", "2", "3", "4",
    "5", "6", "7", "8", "9", ":", "<", "=", ">", "?", "@", "N", "O", "[", "]", "_", "a",
    "b", "c", "d", "e", "f", "g", "h", "i", "j", "k", "l", "m", "n", "o", "p", "q", "r",
    "s", "t", "u", "v", "w", "x", "y", "z", "{", "}">>
CharCode(c) == CHOOSE i \in 1..Len(CodeOrder) : CodeOrder[i] = c

\* text.slice(from) with from >= 0
SliceFrom(text, from) == SubSeq(text, from + 1, Len(text))

\* text.slice(1, -1)
SliceInner(text) == SubSeq(text, 2, Len(text) - 1)

StartsWithOneOf(text, chars) == text # <<>> /\ text[1] \in chars

\* the length of the longest prefix of text made of characters of `chars`
RunLength(text, chars) ==
  IF \E i \in 1..Len(text) : text[i] \notin chars
  THEN (CHOOSE i \in 1..Len(text) :
          text[i] \notin chars /\ \A j \in 1..(i - 1) : text[j] \in chars) - 1
  ELSE Len(text)

\* text.trim()
RECURSIVE TrimEnd(_)
TrimEnd(text) ==
  IF text # <<>> /\ text[Len(text)] \in SpaceChars
  THEN TrimEnd(SubSeq(text, 1, Len(text) - 1)) ELSE text
Trim(text) == TrimEnd(SliceFrom(text, RunLength(text, SpaceChars)))

\* text.split(':')
RECURSIVE Split(_, _)
RECURSIVE SplitAt(_, _, _)
SplitAt(text, sep, cut) ==
  IF cut > Len(text) THEN <<text>>
  ELSE <<SubSeq(text, 1, cut - 1)>> \o Split(SubSeq(text, cut + 1, Len(text)), sep)
Split(text, sep) == SplitAt(text, sep, FirstOf(text, {sep}))

SkipBlanks(text) == SliceFrom(text, RunLength(text, SpaceChars))
Unsigned(text) == IF StartsWithOneOf(text, {"-", "+"}) THEN Tail(text) ELSE text
SignOf(text) == IF StartsWithOneOf(text, {"-"}) THEN -1 ELSE 1

\* parseInt(text): optional sign, then the longest run of digits; NaN if none
ParseIntDigits(sign, digits) == IF digits = <<>> THEN NaN ELSE Num(sign * DigitsToNat(digits))
ParseIntSigned(sign, text) == ParseIntDigits(sign, SubSeq(text, 1, RunLength(text, Digits)))
ParseIntTrimmed(text) == ParseIntSigned(SignOf(text), Unsigned(text))
ParseInt(text) == ParseIntTrimmed(SkipBlanks(text))

\* Number(text) for the numeric texts of the model (integers): the trimmed
\* text must be an integer literal as a whole; the empty text is 0
NumberOfDigits(sign, digits) ==
  IF digits # <<>> /\ RunLength(digits, Digits) = Len(digits)
  THEN Num(sign * DigitsToNat(digits)) ELSE NaN
NumberOfTrimmed(text) ==
  IF text = <<>> THEN Num(0) ELSE NumberOfDigits(SignOf(text), Unsigned(text))
ToNumberOfString(text) == NumberOfTrimmed(Trim(text))

\* parseFloat(text), for the same texts: a prefix is enough, and the empty
\* text is NaN
ParseFloat(text) == ParseInt(text)

\* String(n) for an integer
IntToString(n) == IF n < 0 THEN <<"-">> \o NatToString(-n) ELSE NatToString(n)

(***************************************************************************)
(* tokenize (utils/query.js).                                              *)
(***************************************************************************)
KeyToken(name) == [type |-> "key", value |-> Str(name), start |-> Undefined,
                   end |-> Undefined, expression |-> <<>>]
IndexToken(n) == [type |-> "index", value |-> n, start |-> Undefined,
                  end |-> Undefined, expression |-> <<>>]
WildcardToken == [type |-> "wildcard", value |-> Undefined, start |-> Undefined,
                  end |-> Undefined, expression |-> <<>>]
SliceToken(s, e) == [type |-> "slice", value |-> Undefined, start |-> s,
                     end |-> e, expression |-> <<>>]
FilterToken(expr) == [type |-> "filter", value |-> Undefined, start |-> Undefined,
                      end |-> Undefined, expression |-> expr]
RecursiveToken == [type |-> "recursive", value |-> Undefined, start |-> Undefined,
                   end |-> Undefined, expression |-> <<>>]

\* s ? parseInt(s) : null
SliceBound(part) == IF part # <<>> THEN ParseInt(part) ELSE Null

\* const [start, end] = bracket.split(':').map(...)
SliceTokenOf(parts) == SliceToken(SliceBound(parts[1]), SliceBound(parts[2]))

\* the token pushed for the content of a bracket group, if any
BracketTokens(bracket) ==
  IF bracket = <<"*">> THEN <<WildcardToken>>
  ELSE IF StartsWithOneOf(bracket, QuoteChars) THEN <<KeyToken(SliceInner(bracket))>>
  ELSE IF bracket # <<>> /\ RunLength(bracket, Digits) = Len(bracket)
  THEN <<IndexToken(ParseInt(bracket))>>
  ELSE IF \E i \in 1..Len(bracket) : bracket[i] = ":"
  THEN <<SliceTokenOf(Split(bracket, ":"))>>
  ELSE IF StartsWithOneOf(bracket, {"?"}) THEN <<FilterToken(SliceFrom(bracket, 1))>>
  ELSE <<>>

\* path[i], i counted from 0; undefined past the end
CharAt(path, i) == IF i >= 0 /\ i < Len(path) THEN path[i + 1] ELSE "undefined"

\* a bracket group opened at position i: n characters up to the next ']' (or
\* the end), then one more position for the ']'
BracketStep(rest, i, n) ==
  [tokens |-> BracketTokens(SubSeq(rest, 1, n)), next |-> i + 1 + n + 1]

\* an identifier that also stops at a ']'
IdentifierStepStoppingAtClose(rest, i, n) ==
  [tokens |-> IF FirstOf(rest, {".", "[", "]"}) > 1
              THEN <<KeyToken(SubSeq(rest, 1, FirstOf(rest, {".", "[", "]"}) - 1))>> ELSE <<>>,
   next |-> i + FirstOf(rest, {".", "[", "]"}) - 1]

\* an identifier of n characters at position i
IdentifierStep(rest, i, n) ==
  [tokens |-> IF n > 0 THEN <<KeyToken(SubSeq(rest, 1, n))>> ELSE <<>>, next |-> i + n]

\* a scan loop that tests for the double dot before it skips a single dot
ScanStepDoubleDotFirst(path, i) ==
  IF CharAt(path, i) = "." /\ CharAt(path, i + 1) = "."
  THEN [tokens |-> <<RecursiveToken>>, next |-> i + 2]
  ELSE IF CharAt(path, i) = "." THEN [tokens |-> <<>>, next |-> i + 1]
  ELSE IF CharAt(path, i) = "["
  THEN BracketStep(SliceFrom(path, i + 1), i, FirstOf(SliceFrom(path, i + 1), {"]"}) - 1)
  ELSE IF CharAt(path, i) = "*" THEN [tokens |-> <<WildcardToken>>, next |-> i + 1]
  ELSE IdentifierStep(SliceFrom(path, i), i, FirstOf(SliceFrom(path, i), {".", "["}) - 1)

\* one iteration of the scan loop at position i < path.length: the tokens it
\* pushes and the position it leaves
ScanStep(path, i) ==
  IF CharAt(path, i) = "." THEN [tokens |-> <<>>, next |-> i + 1]
  ELSE IF CharAt(path, i) = "["
  THEN BracketStep(SliceFrom(path, i + 1), i, FirstOf(SliceFrom(path, i + 1), {"]"}) - 1)
  ELSE IF CharAt(path, i) = "." /\ CharAt(path, i + 1) = "."
  THEN [tokens |-> <<RecursiveToken>>, next |-> i + 2]
  ELSE IF CharAt(path, i) = "*" THEN [tokens |-> <<WildcardToken>>, next |-> i + 1]
  ELSE IdentifierStep(SliceFrom(path, i), i, FirstOf(SliceFrom(path, i), {".", "["}) - 1)

RECURSIVE ScanFrom(_, _)
ScanNext(path, step) == step.tokens \o ScanFrom(path, step.next)
ScanFrom(path, i) == IF i < Len(path) THEN ScanNext(path, ScanStep(path, i)) ELSE <<>>

\* a tokenizer that does not skip the leading root marker
tokenizeKeepingRoot(path) == IF path = <<>> THEN <<>> ELSE ScanFrom(path, 0)

tokenize(path) ==
  IF path = <<>> \/ path = <<"$">> THEN <<>>
  ELSE ScanFrom(path, IF path[1] = "$" THEN 1 ELSE 0)

(***************************************************************************)
(* JavaScript coercion and comparison, as used by evaluateFilter.          *)
(***************************************************************************)
IsObjectLike(x) == x.t \in {"arr", "obj", "objproto", "fun"}

ObjectObjectText ==
  <<"[", "o", "b", "j", "e", "c", "t", " ", "O", "b", "j", "e", "c", "t", "]">>

RECURSIVE JoinStrings(_)
RECURSIVE ToStringJS(_)

\* String(x); the text of a function value is opaque
ToStringJS(x) ==
  CASE x.t = "null" -> <<"n", "u", "l", "l">>
    [] x.t = "undef" -> <<"u", "n", "d", "e", "f", "i", "n", "e", "d">>
    [] x.t = "bool" -> IF x.v THEN <<"t", "r", "u", "e">> ELSE <<"f", "a", "l", "s", "e">>
    [] x.t = "num" -> IntToString(x.v)
    [] x.t = "nan" -> <<"N", "a", "N">>
    [] x.t = "str" -> x.v
    [] x.t = "arr" -> JoinStrings(x.v)
    [] x.t = "fun" -> <<"f", "{", "}">>
    [] OTHER -> ObjectObjectText

\* array.join(','): null and undefined elements give the empty text
JoinStrings(elements) ==
  IF elements = <<>> THEN <<>>
  ELSE LET first == IF Head(elements).t \in {"null", "undef"} THEN <<>>
                    ELSE ToStringJS(Head(elements))
       IN IF Len(elements) = 1 THEN first
          ELSE first \o <<",">> \o JoinStrings(Tail(elements))

ToPrimitive(x) == IF IsObjectLike(x) THEN Str(ToStringJS(x)) ELSE x

\* Number(p) for a primitive p
ToNumberPrimitive(p) ==
  CASE p.t = "num" -> p
    [] p.t = "null" -> Num(0)
    [] p.t = "bool" -> Num(IF p.v THEN 1 ELSE 0)
    [] p.t = "str" -> ToNumberOfString(p.v)
    [] OTHER -> NaN

\* Number(x)
ToNumberJS(x) == ToNumberPrimitive(ToPrimitive(x))

NumbersEqual(nx, ny) == nx.t = "num" /\ ny.t = "num" /\ nx.v = ny.v

LooseEqualsPrimitive(px, y) ==
  IF px.t = "str" /\ y.t = "str" THEN px.v = y.v
  ELSE NumbersEqual(ToNumberPrimitive(px), ToNumberPrimitive(y))

\* x == y (loose equality); y is never an object here
LooseEquals(x, y) ==
  IF x.t \in {"null", "undef"} \/ y.t \in {"null", "undef"}
  THEN x.t \in {"null", "undef"} /\ y.t \in {"null", "undef"}
  ELSE LooseEqualsPrimitive(ToPrimitive(x), y)

\* code-unit order of two texts
RECURSIVE TextLess(_, _)
TextLess(a, b) ==
  IF b = <<>> THEN FALSE
  ELSE IF a = <<>> THEN TRUE
  ELSE IF Head(a) = Head(b) THEN TextLess(Tail(a), Tail(b))
  ELSE CharCode(Head(a)) < CharCode(Head(b))

NumbersLess(nx, ny) ==
  IF nx.t # "num" \/ ny.t # "num" THEN "undefined"
  ELSE IF nx.v < ny.v THEN "true" ELSE "false"

LessThanPrimitive(px, py) ==
  IF px.t = "str" /\ py.t = "str"
  THEN (IF TextLess(px.v, py.v) THEN "true" ELSE "false")
  ELSE NumbersLess(ToNumberPrimitive(px), ToNumberPrimitive(py))

\* the abstract relational comparison x < y: "true", "false" or "undefined"
LessThan(x, y) == LessThanPrimitive(ToPrimitive(x), ToPrimitive(y))

(***************************************************************************)
(* evaluateFilter (utils/query.js).                                        *)
(***************************************************************************)
\* the alternatives of the operator group, in the order the regex tries them
OperatorAlternatives ==
  <<<<"=", "=">>, <<"!", "=">>, <<">">>, <<"<">>, <<">", "=">>, <<"<", "=">>>>

HasPrefix(text, prefix) ==
  Len(text) >= Len(prefix) /\ SubSeq(text, 1, Len(prefix)) = prefix

NoMatch == [ok |-> FALSE, property |-> <<>>, operator |-> <<>>, valueStr |-> <<>>]

\* /@\.(\w+)\s*(==|!=|>|<|>=|<=)\s*(.+)/ tried at position p (from 1) of the
\* text.  \w+ and \s* are greedy and giving characters back never lets the
\* next element match; an alternative needs at least one character after it
\* for (.+), which takes the rest of the text after the blanks (or the last
\* blank when only blanks follow).
MatchedValue(tail, blanks) ==
  IF blanks < Len(tail) THEN SliceFrom(tail, blanks) ELSE SubSeq(tail, Len(tail), Len(tail))

MatchedWith(property, operator, tail) ==
  [ok |-> TRUE, property |-> property, operator |-> operator,
   valueStr |-> MatchedValue(tail, RunLength(tail, SpaceChars))]

\* the alternatives that fit at the head of rest: the regex takes the first
FittingAlternatives(rest) ==
  {a \in 1..Len(OperatorAlternatives) :
     /\ HasPrefix(rest, OperatorAlternatives[a])
     /\ Len(rest) > Len(OperatorAlternatives[a])}

FirstAlternative(fits) == OperatorAlternatives[CHOOSE x \in fits : \A y \in fits : x <= y]

MatchOperator(property, rest, fits) ==
  IF property = <<>> \/ fits = {} THEN NoMatch
  ELSE MatchedWith(property, FirstAlternative(fits), SliceFrom(rest, Len(FirstAlternative(fits))))

MatchRest(property, rest) == MatchOperator(property, rest, FittingAlternatives(rest))

MatchProperty(after, w) == MatchRest(SubSeq(after, 1, w), SkipBlanks(SliceFrom(after, w)))

MatchAfter(after) == MatchProperty(after, RunLength(after, WordChars))

MatchAt(text, p) ==
  IF p + 1 <= Len(text) /\ text[p] = "@" /\ text[p + 1] = "."
  THEN MatchAfter(SubSeq(text, p + 2, Len(text)))
  ELSE NoMatch

\* expression.match(...): the leftmost position that matches
MatchLeftmost(text, hits) ==
  IF hits = {} THEN NoMatch ELSE MatchAt(text, CHOOSE p \in hits : \A q \in hits : p <= q)
RegexMatch(text) == MatchLeftmost(text, {p \in 1..Len(text) : MatchAt(text, p).ok})

\* the literal of the comparison
ParseCompareValue(valueStr) ==
  IF StartsWithOneOf(valueStr, QuoteChars) THEN Str(SliceInner(valueStr))
  ELSE IF valueStr = <<"t", "r", "u", "e">> THEN Bool(TRUE)
  ELSE IF valueStr = <<"f", "a", "l", "s", "e">> THEN Bool(FALSE)
  ELSE IF valueStr = <<"n", "u", "l", "l">> THEN Null
  ELSE IF ToNumberOfString(valueStr).t = "num" THEN ParseFloat(valueStr)
  ELSE Str(valueStr)

IsAllDigits(text) == text # <<>> /\ RunLength(text, Digits) = Len(text)

\* item[property] for an item that is neither null nor undefined; the
\* prototype objects of arrays, strings and numbers stand as Object.prototype
GetProperty(item, property) ==
  IF item.t \in {"obj", "objproto"} THEN Get(item, property)
  ELSE IF item.t = "arr" /\ property = <<"l", "e", "n", "g", "t", "h">> THEN Num(Len(item.v))
  ELSE IF item.t = "arr" /\ IsAllDigits(property) THEN At(item, DigitsToNat(property))
  ELSE IF item.t = "str" /\ property = <<"l", "e", "n", "g", "t", "h">> THEN Num(Len(item.v))
  ELSE IF item.t = "str" /\ IsAllDigits(property)
  THEN (IF DigitsToNat(property) < Len(item.v)
        THEN Str(<<item.v[DigitsToNat(property) + 1]>>) ELSE Undefined)
  ELSE IF property = ProtoProto THEN ObjectPrototype
  ELSE IF property \in InheritedKeys THEN FunctionValue
  ELSE Undefined

\* the switch over the operator
ApplyOperator(operator, itemValue, compareValue) ==
  CASE operator = <<"=", "=">> -> LooseEquals(itemValue, compareValue)
    [] operator = <<"!", "=">> -> ~LooseEquals(itemValue, compareValue)
    [] operator = <<">">> -> LessThan(compareValue, itemValue) = "true"
    [] operator = <<"<">> -> LessThan(itemValue, compareValue) = "true"
    [] operator = <<">", "=">> -> LessThan(itemValue, compareValue) = "false"
    [] operator = <<"<", "=">> -> LessThan(compareValue, itemValue) = "false"
    [] OTHER -> FALSE

\* an evaluateFilter that reads item[property] before it tests the match
EvaluateMatchReadingFirst(item, match) ==
  IF item.t \in {"null", "undef"} THEN [threw |-> TRUE, value |-> FALSE]
  ELSE IF ~match.ok THEN [threw |-> FALSE, value |-> FALSE]
  ELSE [threw |-> FALSE,
        value |-> ApplyOperator(match.operator, GetProperty(item, match.property),
                                ParseCompareValue(match.valueStr))]

\* evaluateFilter after the match: the boolean it returns, or threw when
\* item[property] is read of null or undefined (a TypeError)
EvaluateMatch(item, match) ==
  IF ~match.ok THEN [threw |-> FALSE, value |-> FALSE]
  ELSE IF item.t \in {"null", "undef"} THEN [threw |-> TRUE, value |-> FALSE]
  ELSE [threw |-> FALSE,
        value |-> ApplyOperator(match.operator, GetProperty(item, match.property),
                                ParseCompareValue(match.valueStr))]

evaluateFilter(item, expression) == EvaluateMatch(item, RegexMatch(expression))

(***************************************************************************)
(* applyToken (utils/query.js).  A path is a JavaScript array of segments  *)
(* (strings and numbers) starting with "$"; currentPath is undefined when   *)
(* the caller's paths array has no entry for the candidate, and spreading  *)
(* it ([...currentPath, x]) then throws a TypeError.                       *)
(***************************************************************************)
Emit(value, currentPath, segment) ==
  [value |-> value,
   path |-> IF currentPath.t = "arr" THEN Arr(Append(currentPath.v, segment)) ELSE Undefined]

\* case 'key'
ApplyKey(token, current, currentPath) ==
  IF ~IsNull(current) /\ TypeOf(current) = "object" /\ ~IsArray(current)
       /\ In(token.value.v, current)
  THEN <<Emit(Get(current, token.value.v), currentPath, token.value)>>
  ELSE <<>>

\* case 'index'
ApplyIndex(token, current, currentPath) ==
  IF IsArray(current) /\ token.value.v >= 0 /\ token.value.v < Length(current)
  THEN <<Emit(At(current, token.value.v), currentPath, token.value)>>
  ELSE <<>>

\* a wildcard that stops one element short on arrays
ApplyWildcardSkippingLast(token, current, currentPath) ==
  IF IsArray(current)
  THEN [i \in 1..(Length(current) - 1) |-> Emit(At(current, i - 1), currentPath, Num(i - 1))]
  ELSE <<>>

\* case 'wildcard'
ApplyWildcard(token, current, currentPath) ==
  IF IsArray(current)
  THEN [i \in 1..Length(current) |-> Emit(At(current, i - 1), currentPath, Num(i - 1))]
  ELSE IF ~IsNull(current) /\ TypeOf(current) = "object"
  THEN [i \in 1..Len(Keys(current)) |->
          Emit(Get(current, Keys(current)[i]), currentPath, Str(Keys(current)[i]))]
  ELSE <<>>

\* x ?? fallback
Coalesce(x, fallback) == IF x.t \in {"null", "undef"} THEN fallback ELSE x

\* case 'slice': for (i = start; i < Math.min(end, current.length); i++);
\* a NaN bound makes every test false
SliceLoop(current, currentPath, start, stop) ==
  [n \in 1..(stop - start) |->
     Emit(At(current, start + n - 1), currentPath, Num(start + n - 1))]

SliceBounds(current, currentPath, start, end) ==
  IF start.t # "num" \/ end.t # "num" THEN <<>>
  ELSE SliceLoop(current, currentPath, start.v, Min(end.v, Length(current)))

ApplySlice(token, current, currentPath) ==
  IF ~IsArray(current) THEN <<>>
  ELSE SliceBounds(current, currentPath, Coalesce(token.start, Num(0)),
                   Coalesce(token.end, Num(Length(current))))

\* case 'recursive': collect(obj, path)
RECURSIVE Collect(_, _)
RECURSIVE CollectEach(_, _, _)
CollectChild(obj, path, i, emitted) ==
  <<emitted>> \o Collect(emitted.value, emitted.path) \o CollectEach(obj, path, i + 1)
CollectEach(obj, path, i) ==
  IF IsArray(obj)
  THEN (IF i > Length(obj) THEN <<>>
        ELSE CollectChild(obj, path, i, Emit(At(obj, i - 1), path, Num(i - 1))))
  ELSE (IF i > Len(Keys(obj)) THEN <<>>
        ELSE CollectChild(obj, path, i, Emit(Get(obj, Keys(obj)[i]), path, Str(Keys(obj)[i]))))
Collect(obj, path) ==
  IF IsNull(obj) \/ TypeOf(obj) # "object" THEN <<>> ELSE CollectEach(obj, path, 1)

\* case 'filter': the indices of the elements evaluateFilter keeps, from i on
RECURSIVE KeptIndices(_, _, _)
KeptIndices(current, expression, i) ==
  IF i >= Length(current) THEN <<>>
  ELSE (IF evaluateFilter(At(current, i), expression).value THEN <<i>> ELSE <<>>)
         \o KeptIndices(current, expression, i + 1)

EmitKept(current, currentPath, kept) ==
  [n \in 1..Len(kept) |-> Emit(At(current, kept[n]), currentPath, Num(kept[n]))]

ApplyFilter(token, current, currentPath) ==
  IF ~IsArray(current) THEN <<>>
  ELSE EmitKept(current, currentPath, KeptIndices(current, token.expression, 0))

\* evaluateFilter throws on some element
FilterThrows(token, current) ==
  /\ token.type = "filter"
  /\ IsArray(current)
  /\ \E i \in 0..(Length(current) - 1) : evaluateFilter(At(current, i), token.expression).threw

\* the switch of applyToken: the (value, path) pairs pushed, in push order
Emitted(token, current, currentPath) ==
  CASE token.type = "key" -> ApplyKey(token, current, currentPath)
    [] token.type = "index" -> ApplyIndex(token, current, currentPath)
    [] token.type = "wildcard" -> ApplyWildcard(token, current, currentPath)
    [] token.type = "slice" -> ApplySlice(token, current, currentPath)
    [] token.type = "recursive" -> Collect(current, currentPath)
    [] token.type = "filter" -> ApplyFilter(token, current, currentPath)
    [] OTHER -> <<>>

\* {values, paths} as returned, or threw: by evaluateFilter, or by the spread
\* of an undefined currentPath at the first push
TokenResult(emitted, filterThrew, currentPath) ==
  [values |-> [i \in 1..Len(emitted) |-> emitted[i].value],
   paths |-> [i \in 1..Len(emitted) |-> emitted[i].path],
   threw |-> filterThrew \/ (Len(emitted) > 0 /\ currentPath.t # "arr")]

applyToken(token, current, currentPath) ==
  TokenResult(Emitted(token, current, currentPath), FilterThrows(token, current), currentPath)

(***************************************************************************)
(* The documents the handlers are run on.  Parsing is done by JSON.parse,  *)
(* outside the modelled code: an input is the parsed value, or EmptyText   *)
(* for a text area that holds no valid JSON.                               *)
(***************************************************************************)
EmptyText == [t |-> "text"]

KeyA == <<"a">>
KeyB == <<"b">>
KeyC == <<"c">>
KeyX == <<"x">>
KeyId == <<"i", "d">>
KeyItems == <<"i", "t", "e", "m", "s">>

Leaves == {Null, Str(<<"x">>)} \cup {Num(n) : n \in 1..MaxNum}

SeqsUpTo(S, n) == UNION {[1..k -> S] : k \in 0..n}
ArraysOf(S, n) == {Arr(s) : s \in SeqsUpTo(S, n)}

\* objects over the keys a and b, in either insertion order
KeyOrders == {<<>>, <<KeyA>>, <<KeyB>>, <<KeyA, KeyB>>, <<KeyB, KeyA>>}
ObjectsOf(S) ==
  UNION {{Obj([i \in 1..Len(ks) |-> Entry(ks[i], vs[i])]) : vs \in [1..Len(ks) -> S]} :
         ks \in KeyOrders}

\* containers nested inside a container
InnerValues == ArraysOf({Num(1)}, 1) \cup ObjectsOf({Num(1)})
NestedValues ==
  {Arr(<<c>>) : c \in InnerValues} \cup {Arr(<<Num(1), c>>) : c \in InnerValues}
    \cup {Obj(<<Entry(KeyA, c)>>) : c \in InnerValues}
    \cup {Obj(<<Entry(KeyA, Arr(<<c>>))>>) : c \in InnerValues}

\* objects with an own key that is also an inherited name
ShadowingValues ==
  {Obj(<<Entry(ProtoProto, Obj(<<>>))>>), Obj(<<Entry(ProtoProto, Null)>>),
   Obj(<<Entry(ProtoConstructor, Num(1))>>)}

\* the documents of the specification's concrete scenarios
ScenarioALeft == Obj(<<Entry(KeyA, Num(1)), Entry(KeyB, Num(2))>>)
ScenarioARight == Obj(<<Entry(KeyA, Num(1)), Entry(KeyB, Num(3)), Entry(KeyC, Num(4))>>)
ScenarioBRoot ==
  Obj(<<Entry(KeyItems, Arr(<<Obj(<<Entry(KeyId, Num(1))>>), Obj(<<Entry(KeyId, Num(2))>>),
                              Obj(<<Entry(KeyId, Num(3))>>)>>))>>)
ScenarioCRoot == Obj(<<Entry(KeyX, Arr(<<Num(10), Num(20), Num(30), Num(40)>>))>>)

DiffDocuments ==
  Leaves \cup {Bool(TRUE), Bool(FALSE)} \cup ArraysOf(Leaves, MaxLen) \cup ObjectsOf(Leaves)
    \cup NestedValues \cup ShadowingValues \cup {ScenarioALeft, ScenarioARight}

\* documents with keys whose path text can be read in two ways (the empty
\* key, a key holding a dot), two objects of four objects with 18 leaves in
\* all that differ at 17 of them, and some plain documents to compare them
\* with
EmptyKey == <<>>
DottedKey == <<"a", ".", "b">>
WideKey(i) == <<"k">> \o NatToString(i)
BranchSize(i) == IF i <= 2 THEN 5 ELSE 4
WideBranch(size, changed) ==
  Obj([j \in 1..size |-> Entry(WideKey(j), Num(IF j <= changed THEN 1 ELSE 0))])
WideObjectLeft == Obj([i \in 1..4 |-> Entry(WideKey(i), WideBranch(BranchSize(i), 0))])
WideObjectRight ==
  Obj([i \in 1..4 |->
         Entry(WideKey(i), WideBranch(BranchSize(i), IF i = 4 THEN 3 ELSE BranchSize(i)))])
EdgeDocuments ==
  {Obj(<<Entry(EmptyKey, Num(1)), Entry(KeyA, Num(1))>>),
   Obj(<<Entry(EmptyKey, Num(2)), Entry(KeyA, Num(2))>>),
   Obj(<<Entry(KeyA, Num(1)), Entry(EmptyKey, Null)>>),
   Obj(<<Entry(EmptyKey, Obj(<<Entry(KeyA, Num(1))>>))>>),
   Obj(<<Entry(KeyA, Num(1)), Entry(DottedKey, Num(1))>>),
   Obj(<<Entry(KeyA, Num(2)), Entry(DottedKey, Num(2))>>),
   Obj(<<Entry(KeyA, Obj(<<Entry(KeyB, Num(1))>>)), Entry(DottedKey, Num(1))>>),
   Obj(<<Entry(KeyA, Obj(<<Entry(KeyB, Num(2))>>))>>),
   Obj(<<Entry(ProtoConstructor, Num(1))>>),
   WideObjectLeft, WideObjectRight,
   Null, Num(1), Arr(<<Num(1)>>), Obj(<<>>), Obj(<<Entry(KeyA, Num(1))>>),
   ScenarioALeft, ScenarioARight}

\* the expressions typed into the JSONPath field:
\*   ``, `$`, `[*]`, `$[*]`, `$.*`, `$.a`
\*   `a`, `$.a.b`, `$.a[0]`, `$['a']`, `$[0]`, `$[1]`
\*   `$[*].a`, `$[*][0]`, `$..a`, `$.x`, `$.x[*]`, `$.x[1:]`
\*   `$.x[:2]`, `$.items`, `$.items[*]`, `$.items[*].id`, `$.items[0].id`, `$.items[?(@.id>1)]`
\*   `$.items[?@.id>1]`, `$.items[?(@.id==2)]`, `$.items[?@.id==2]`, `$.items[?@.id>=2]`, `$.items[?@.id<2]`, `$.items[?id]`
\*   `$.items[?@.id]`, `$.items[?@.id>]`, `$.constructor`, `$[x]`, `$.a[`
\*   `$.x[-1:]`, `$.x[-1:2]`, `$.x[0:-1]`, `$.a[0:2]`
FixedExpressions ==
  {<<>>,
   <<"$">>,
   <<"[", "*", "]">>,
   <<"$", "[", "*", "]">>,
   <<"$", ".", "*">>,
   <<"$", ".", "a">>,
   <<"a">>,
   <<"$", ".", "a", ".", "b">>,
   <<"$", ".", "a", "[", "0", "]">>,
   <<"$", "[", "'", "a", "'", "]">>,
   <<"$", "[", "0", "]">>,
   <<"$", "[", "1", "]">>,
   <<"$", "[", "*", "]", ".", "a">>,
   <<"$", "[", "*", "]", "[", "0", "]">>,
   <<"$", ".", ".", "a">>,
   <<"$", ".", "x">>,
   <<"$", ".", "x", "[", "*", "]">>,
   <<"$", ".", "x", "[", "1", ":", "]">>,
   <<"$", ".", "x", "[", ":", "2", "]">>,
   <<"$", ".", "x", "[", "-", "1", ":", "]">>,
   <<"$", ".", "x", "[", "-", "1", ":", "2", "]">>,
   <<"$", ".", "x", "[", "0", ":", "-", "1", "]">>,
   <<"$", ".", "a", "[", "0", ":", "2", "]">>,
   <<"$", ".", "i", "t", "e", "m", "s">>,
   <<"$", ".", "i", "t", "e", "m", "s", "[", "*", "]">>,
   <<"$", ".", "i", "t", "e", "m", "s", "[", "*", "]", ".", "i", "d">>,
   <<"$", ".", "i", "t", "e", "m", "s", "[", "0", "]", ".", "i", "d">>,
   <<"$", ".", "i", "t", "e", "m", "s", "[", "?", "(", "@", ".", "i", "d", ">", "1",
     ")", "]">>,
   <<"$", ".", "i", "t", "e", "m", "s", "[", "?", "@", ".", "i", "d", ">", "1", "]">>,
   <<"$", ".", "i", "t", "e", "m", "s", "[", "?", "(", "@", ".", "i", "d", "=", "=",
     "2", ")", "]">>,
   <<"$", ".", "i", "t", "e", "m", "s", "[", "?", "@", ".", "i", "d", "=", "=", "2",
     "]">>,
   <<"$", ".", "i", "t", "e", "m", "s", "[", "?", "@", ".", "i", "d", ">", "=", "2",
     "]">>,
   <<"$", ".", "i", "t", "e", "m", "s", "[", "?", "@", ".", "i", "d", "<", "2", "]">>,
   <<"$", ".", "i", "t", "e", "m", "s", "[", "?", "i", "d", "]">>,
   <<"$", ".", "i", "t", "e", "m", "s", "[", "?", "@", ".", "i", "d", "]">>,
   <<"$", ".", "i", "t", "e", "m", "s", "[", "?", "@", ".", "i", "d", ">", "]">>,
   <<"$", ".", "c", "o", "n", "s", "t", "r", "u", "c", "t", "o", "r">>,
   <<"$", "[", "x", "]">>,
   <<"$", ".", "a", "[">>}

FilterParenthesised == <<"$", ".", "i", "t", "e", "m", "s", "[", "?", "(", "@", ".", "i", "d", ">", "1", ")", "]">>
FilterBare == <<"$", ".", "i", "t", "e", "m", "s", "[", "?", "@", ".", "i", "d", ">", "1", "]">>
WildcardExpression == <<"[", "*", "]">>

\* `$.x[s:e]`
SliceExpression(s, e) ==
  <<"$", ".", "x", "[">> \o NatToString(s) \o <<":">> \o NatToString(e) \o <<"]">>
SliceExpressions == {SliceExpression(s, e) : s \in 0..MaxIndex, e \in 0..MaxIndex}

\* `$.items[?@.id<op><n>]` for each operator of the filter grammar
ComparisonExpression(op, n) ==
  <<"$", ".", "i", "t", "e", "m", "s", "[", "?", "@", ".", "i", "d">>
    \o op \o NatToString(n) \o <<"]">>
ComparisonExpressions ==
  {ComparisonExpression(OperatorAlternatives[a], n) :
     a \in 1..Len(OperatorAlternatives), n \in 1..MaxNum}

QueryExpressions == FixedExpressions \cup SliceExpressions \cup ComparisonExpressions

\* arrays of numbers stored under the key x: [10], [10, 20], ...
TensArray(n) == Arr([i \in 1..n |-> Num(10 * i)])
XDocuments == {Obj(<<Entry(KeyX, TensArray(n))>>) : n \in 0..(MaxLen + 2)}

ItemsDocuments ==
  {ScenarioBRoot,
   Obj(<<Entry(KeyItems, Arr(<<Num(1), Num(2)>>))>>),
   Obj(<<Entry(KeyItems, Arr(<<Obj(<<Entry(KeyId, Num(2))>>), Null>>))>>),
   Obj(<<Entry(KeyItems, Arr(<<Obj(<<Entry(KeyId, Str(<<"2">>))>>),
                               Obj(<<Entry(KeyA, Num(1))>>)>>))>>)}

QueryDocuments ==
  Leaves \cup {Bool(TRUE)} \cup ArraysOf(Leaves, MaxLen) \cup ObjectsOf({Num(1), Null})
    \cup NestedValues \cup XDocuments \cup ItemsDocuments \cup {ScenarioCRoot}

\* the documents whose line maps are resolved against: scenario D
\* {"a":{"b":1}}, a scalar (nothing recorded), containers with indices
ScenarioDRoot == Obj(<<Entry(KeyA, Obj(<<Entry(KeyB, Num(1))>>))>>)
LineMapDocuments ==
  {ScenarioDRoot, Num(1), Obj(<<>>), Arr(<<Num(1), Arr(<<Num(1)>>)>>),
   Obj(<<Entry(KeyA, Arr(<<Num(1), Obj(<<Entry(KeyB, Num(1))>>)>>)), Entry(KeyB, Num(1))>>),
   Obj(<<Entry(KeyB, Obj(<<Entry(KeyA, Num(1)), Entry(KeyB, Null)>>))>>)}

\* the paths resolved: every text of up to MaxPathLen characters over the
\* characters paths are made of, and some longer paths:
\*   `a.b.c`, `a.b[0]`, `a[1].b`, `a[1].b.c`, `a[1].c[0]`, `[1][0]`, `[1][0][0]`,
\*   `a[10]`, `b.a.b.c`
PathChars == {"a", "b", ".", "[", "]", "0"}
TextsOver(chars, n) == UNION {[1..k -> chars] : k \in 0..n}
LongPaths ==
  {<<"a", ".", "b", ".", "c">>, <<"a", ".", "b", "[", "0", "]">>,
   <<"a", "[", "1", "]", ".", "b">>, <<"a", "[", "1", "]", ".", "b", ".", "c">>,
   <<"a", "[", "1", "]", ".", "c", "[", "0", "]">>, <<"[", "1", "]", "[", "0", "]">>,
   <<"[", "1", "]", "[", "0", "]", "[", "0", "]">>, <<"a", "[", "1", "0", "]">>,
   <<"b", ".", "a", ".", "b", ".", "c">>}
ResolvedPaths == TextsOver(PathChars, MaxPathLen) \cup LongPaths

(***************************************************************************)
(* State.                                                                  *)
(***************************************************************************)
VARIABLES
  diffInput1,      \* elements.diffInput1.value, parsed
  diffInput2,      \* elements.diffInput2.value, parsed
  diffResult,      \* elements.diffResult: what the last diff rendered
  queryInput,      \* elements.queryInput.value, parsed
  jsonpathInput,   \* elements.jsonpathInput.value
  queryPc,         \* where handleQuery is: "idle", "loop", "done" or "crashed"
  queryTokens,     \* queryJSONPath: the tokens the loop has still to apply
  queryResults,    \* queryJSONPath: results
  queryPaths,      \* queryJSONPath: paths
  queryResult,     \* handleQuery: the object queryJSONPath returned
  queryOutput,     \* elements.queryOutput: what is rendered
  resolvePath,     \* resolvePathLine: the argument path
  pathToLine,      \* resolvePathLine: the argument pathToLine, as its entries
  currentPath,     \* resolvePathLine: currentPath
  resolvePc,       \* where resolvePathLine is: "idle", "called", "walk", "done"
  resolvedLine,    \* resolvePathLine: the value returned
  tokenizePath,    \* tokenize: the argument path
  tokenizeIndex,   \* tokenize: i
  tokenizeTokens,  \* tokenize: tokens
  tokenizePc,      \* where tokenize is: "idle", "called", "scan", "done"
  currentMode,     \* state.currentMode: the section shown, whose controls act
  autoFormat,      \* state.autoFormat
  now,             \* the clock of the page, in steps of Tick milliseconds
  inputEvents,     \* the times of the input events on elements.inputJson so far
  timers,          \* the timeouts that are set and have not run: id and due time
  formatCalls,     \* the times of the calls of handleFormat so far
  outputFor,       \* which input event's text elements.outputJson or the error shows
  statsFor         \* which input event's text the statistics show

diffVars == <<diffInput1, diffInput2, diffResult>>
queryVars == <<queryInput, jsonpathInput, queryPc, queryTokens, queryResults, queryPaths,
               queryResult, queryOutput>>
resolveVars == <<resolvePath, pathToLine, currentPath, resolvePc, resolvedLine>>
tokenizeVars == <<tokenizePath, tokenizeIndex, tokenizeTokens, tokenizePc>>
formatVars ==
  <<currentMode, autoFormat, now, inputEvents, timers, formatCalls, outputFor, statsFor>>
vars == <<diffVars, queryVars, resolveVars, tokenizeVars, formatVars>>

NoDiffResult ==
  [shown |-> FALSE, changes |-> <<>>, similarity |-> 0,
   lineKinds |-> [left |-> <<>>, right |-> <<>>]]
NoQueryResult ==
  [returned |-> FALSE, success |-> FALSE, error |-> "", results |-> <<>>, paths |-> <<>>,
   count |-> 0]

DiffIdle ==
  /\ diffInput1 = EmptyText
  /\ diffInput2 = EmptyText
  /\ diffResult = NoDiffResult

QueryIdle ==
  /\ queryInput = EmptyText
  /\ jsonpathInput = <<>>
  /\ queryPc = "idle"
  /\ queryTokens = <<>>
  /\ queryResults = <<>>
  /\ queryPaths = <<>>
  /\ queryResult = NoQueryResult
  /\ queryOutput = "empty"

ResolveIdle ==
  /\ resolvePath = <<>>
  /\ pathToLine = <<>>
  /\ currentPath = <<>>
  /\ resolvePc = "idle"
  /\ resolvedLine = 0

TokenizeIdle ==
  /\ tokenizePath = <<>>
  /\ tokenizeIndex = 0
  /\ tokenizeTokens = <<>>
  /\ tokenizePc = "idle"

\* state.autoFormat as popup.js declares it, no input event yet
FormatIdle ==
  /\ autoFormat = FALSE
  /\ now = 0
  /\ inputEvents = <<>>
  /\ timers = <<>>
  /\ formatCalls = <<>>
  /\ outputFor = 0
  /\ statsFor = 0

\* the diff tab with two documents typed in
DiffInit ==
  /\ diffInput1 \in DiffDocuments
  /\ diffInput2 \in DiffDocuments
  /\ diffResult = NoDiffResult
  /\ QueryIdle
  /\ ResolveIdle
  /\ TokenizeIdle
  /\ FormatIdle
  /\ currentMode = "diff"

\* the diff tab with two of the edge documents typed in
EdgeDiffInit ==
  /\ diffInput1 \in EdgeDocuments
  /\ diffInput2 \in EdgeDocuments
  /\ diffResult = NoDiffResult
  /\ QueryIdle
  /\ ResolveIdle
  /\ TokenizeIdle
  /\ FormatIdle
  /\ currentMode = "diff"

\* the query tab with a document and an expression typed in
QueryInit ==
  /\ queryInput \in QueryDocuments \cup {EmptyText}
  /\ jsonpathInput \in QueryExpressions
  /\ queryPc = "idle"
  /\ queryTokens = <<>>
  /\ queryResults = <<>>
  /\ queryPaths = <<>>
  /\ queryResult = NoQueryResult
  /\ queryOutput = "empty"
  /\ DiffIdle
  /\ ResolveIdle
  /\ TokenizeIdle
  /\ FormatIdle
  /\ currentMode = "query"


(***************************************************************************)
(* stringifyWithPathMap, resolvePathLine and getParentPath (popup.js).     *)
(* pathToLine is a Map: here the list of its entries in insertion order,   *)
(* a later set of the same path replacing the earlier one.  The text of    *)
(* the lines is display only; the line numbers are what is modelled.       *)
(***************************************************************************)
\* pathToLine.has(path), pathToLine.get(path)
MapHas(entries, path) == \E i \in 1..Len(entries) : entries[i].path = path
MapGet(entries, path) ==
  entries[CHOOSE i \in 1..Len(entries) :
            entries[i].path = path /\ \A j \in (i + 1)..Len(entries) : entries[j].path # path].line

\* const lineNo = addLine(...); if (path) pathToLine.set(path, lineNo)
\* `written` is what appendValue has done so far: the entries set and the
\* number of lines pushed
AddRecordedLine(written, path) ==
  [entries |-> IF path # <<>>
               THEN Append(written.entries, [path |-> path, line |-> written.lines + 1])
               ELSE written.entries,
   lines |-> written.lines + 1]

\* addLine(...) of a closing bracket
AddLine(written) == [entries |-> written.entries, lines |-> written.lines + 1]

\* Object.entries(current)
OwnEntries(current) == current.v

RECURSIVE AppendValue(_, _, _)
RECURSIVE AppendItems(_, _, _, _)
RECURSIVE AppendEntries(_, _, _, _)

\* current.forEach((item, index) => appendValue(item, itemPath, ...)) from
\* `index` on, then the closing line
AppendItems(current, path, index, written) ==
  IF index >= Length(current) THEN AddLine(written)
  ELSE AppendItems(current, path, index + 1,
                   AppendValue(At(current, index), IndexPath(path, index), written))

\* entries.forEach(([childKey, childValue]) => appendValue(...)) from the
\* entry number `index` on, then the closing line
AppendEntries(entries, path, index, written) ==
  IF index > Len(entries) THEN AddLine(written)
  ELSE AppendEntries(entries, path, index + 1,
                     AppendValue(entries[index].val, KeyPath(path, entries[index].k),
                                 written))

\* appendValue(current, path, depth, addComma, key)
AppendValue(current, path, written) ==
  IF IsNull(current) \/ TypeOf(current) # "object" THEN AddRecordedLine(written, path)
  ELSE IF IsArray(current)
  THEN (IF Length(current) = 0 THEN AddRecordedLine(written, path)
        ELSE AppendItems(current, path, 0, AddRecordedLine(written, path)))
  ELSE IF Len(OwnEntries(current)) = 0 THEN AddRecordedLine(written, path)
  ELSE AppendEntries(OwnEntries(current), path, 1, AddRecordedLine(written, path))

\* stringifyWithPathMap(value).pathToLine
stringifyWithPathMap(value) == AppendValue(value, <<>>, [entries |-> <<>>, lines |-> 0])

\* the length of the run of characters of `chars` that ends at position `last`
RECURSIVE RunLengthBefore(_, _, _)
RunLengthBefore(text, chars, last) ==
  IF last >= 1 /\ text[last] \in chars THEN 1 + RunLengthBefore(text, chars, last - 1) ELSE 0

\* /\[\d+\]$/.test(path), given the length of the digit run before the last
\* character
EndsWithIndexAfter(path, digits) ==
  /\ digits >= 1
  /\ Len(path) - 1 - digits >= 1
  /\ path[Len(path) - 1 - digits] = "["

EndsWithIndex(path) ==
  /\ Len(path) >= 3
  /\ path[Len(path)] = "]"
  /\ EndsWithIndexAfter(path, RunLengthBefore(path, Digits, Len(path) - 1))

\* path.replace(/\[\d+\]$/, '')
WithoutIndex(path) ==
  SubSeq(path, 1, Len(path) - 2 - RunLengthBefore(path, Digits, Len(path) - 1))

\* path.lastIndexOf('.'), counted from 1; 0 for -1
LastIndexOf(text, c) ==
  IF \E i \in 1..Len(text) : text[i] = c
  THEN CHOOSE i \in 1..Len(text) : text[i] = c /\ \A j \in (i + 1)..Len(text) : text[j] # c
  ELSE 0

\* a parent that is found from the first dot instead of the last
getParentPathFirstDot(path) ==
  IF path = <<>> THEN <<>>
  ELSE IF EndsWithIndex(path) THEN WithoutIndex(path)
  ELSE SubSeq(path, 1, FirstOf(path, {"."}) - 1)

\* a parent that leaves a path without a dot as it is
getParentPathKeepingKey(path) ==
  IF path = <<>> THEN <<>>
  ELSE IF EndsWithIndex(path) THEN WithoutIndex(path)
  ELSE IF LastIndexOf(path, ".") = 0 THEN path
  ELSE SubSeq(path, 1, LastIndexOf(path, ".") - 1)

getParentPath(path) ==
  IF path = <<>> THEN <<>>
  ELSE IF EndsWithIndex(path) THEN WithoutIndex(path)
  ELSE IF LastIndexOf(path, ".") = 0 THEN <<>>
  ELSE SubSeq(path, 1, LastIndexOf(path, ".") - 1)

\* resolvePathLine's loop: while (currentPath) { currentPath =
\* getParentPath(currentPath); if (pathToLine.has(currentPath)) return ... }
\* return 1
RECURSIVE ResolveFrom(_, _)
ResolveFrom(current, entries) ==
  IF current = <<>> THEN 1
  ELSE IF MapHas(entries, getParentPath(current))
  THEN MapGet(entries, getParentPath(current))
  ELSE ResolveFrom(getParentPath(current), entries)

\* resolvePathLine(path, pathToLine) as one call
resolvePathLine(path, entries) ==
  IF path = <<>> THEN 1
  ELSE IF MapHas(entries, path) THEN MapGet(entries, path)
  ELSE ResolveFrom(path, entries)

(***************************************************************************)
(* collectDiffLineKinds (popup.js).  A line map is a function from the     *)
(* line numbers that have a class to the class.                            *)
(***************************************************************************)
Priority(kind) ==
  CASE kind = "diff-inline-added" -> 1
    [] kind = "diff-inline-removed" -> 2
    [] kind = "diff-inline-changed" -> 3

\* targetMap.set(line, kind)
MapSet(targetMap, line, kind) ==
  [l \in DOMAIN targetMap \cup {line} |-> IF l = line THEN kind ELSE targetMap[l]]

\* a setLineKind that always takes the new class
SetLineKindLastWins(targetMap, line, kind) == MapSet(targetMap, line, kind)

\* setLineKind(targetMap, line, kind)
SetLineKind(targetMap, line, kind) ==
  IF line \notin DOMAIN targetMap \/ Priority(kind) > Priority(targetMap[line])
  THEN MapSet(targetMap, line, kind)
  ELSE targetMap

\* the body of the loop over the changes, for one change, as it acts on the
\* map of the left text: changed and removed records set a class there
CollectLeft(change, leftPathToLine, left) ==
  IF change.type = "changed"
  THEN SetLineKind(left, resolvePathLine(change.path, leftPathToLine), "diff-inline-changed")
  ELSE IF change.type = "removed"
  THEN SetLineKind(left, resolvePathLine(change.path, leftPathToLine), "diff-inline-removed")
  ELSE left

\* the same body as it acts on the map of the right text: changed and added
\* records set a class there
CollectRight(change, rightPathToLine, right) ==
  IF change.type = "changed"
  THEN SetLineKind(right, resolvePathLine(change.path, rightPathToLine), "diff-inline-changed")
  ELSE IF change.type = "added"
  THEN SetLineKind(right, resolvePathLine(change.path, rightPathToLine), "diff-inline-added")
  ELSE right

\* for (const change of changes): the map of the left text once the first n
\* changes of the list are through the loop body
RECURSIVE LeftKindsFrom(_, _, _)
LeftKindsFrom(changes, n, leftPathToLine) ==
  IF n = 0 THEN <<>>
  ELSE CollectLeft(changes[n], leftPathToLine, LeftKindsFrom(changes, n - 1, leftPathToLine))

\* and the map of the right text
RECURSIVE RightKindsFrom(_, _, _)
RightKindsFrom(changes, n, rightPathToLine) ==
  IF n = 0 THEN <<>>
  ELSE CollectRight(changes[n], rightPathToLine,
                    RightKindsFrom(changes, n - 1, rightPathToLine))

\* return { left, right }
collectDiffLineKinds(changes, leftPathToLine, rightPathToLine) ==
  [left |-> LeftKindsFrom(changes, Len(changes), leftPathToLine),
   right |-> RightKindsFrom(changes, Len(changes), rightPathToLine)]

(***************************************************************************)
(* The diff handlers (popup.js).                                           *)
(***************************************************************************)
\* the part of handleDiff after both inputs parsed: diff, similarity, render
RunDiff(left, right) ==
  [shown |-> TRUE, changes |-> diffJSON(left, right),
   similarity |-> calculateSimilarity(left, right),
   lineKinds |-> collectDiffLineKinds(diffJSON(left, right),
                                      stringifyWithPathMap(left).entries,
                                      stringifyWithPathMap(right).entries)]

\* a handleDiff whose comparison patches the left document as it goes
handleDiffPatchingLeft ==
  /\ diffInput1 # EmptyText /\ diffInput2 # EmptyText
  /\ diffResult' = RunDiff(diffInput1, diffInput2)
  /\ diffInput1' = diffInput2
  /\ UNCHANGED <<diffInput2, queryVars, resolveVars, tokenizeVars, formatVars>>

\* handleDiff: returns early (a toast only) when an input is not valid JSON
handleDiff ==
  /\ currentMode = "diff"
  /\ diffInput1 # EmptyText /\ diffInput2 # EmptyText
  /\ UNCHANGED <<diffInput1, diffInput2, queryVars, resolveVars, tokenizeVars, formatVars>>
  /\ diffResult' = RunDiff(diffInput1, diffInput2)

\* handleSwapDiff: swap the two text areas, then handleDiff
handleSwapDiff ==
  /\ currentMode = "diff"
  /\ diffInput1' = diffInput2
  /\ diffInput2' = diffInput1
  /\ diffResult' = IF diffInput1 # EmptyText /\ diffInput2 # EmptyText
                   THEN RunDiff(diffInput2, diffInput1)
                   ELSE diffResult
  /\ UNCHANGED <<queryVars, resolveVars, tokenizeVars, formatVars>>

\* handleClearDiff
handleClearDiff ==
  /\ currentMode = "diff"
  /\ diffInput1' = EmptyText
  /\ diffInput2' = EmptyText
  /\ diffResult' = NoDiffResult
  /\ UNCHANGED <<queryVars, resolveVars, tokenizeVars, formatVars>>

(***************************************************************************)
(* handleQuery (popup.js) and queryJSONPath (utils/query.js).  The handler *)
(* runs to completion; the loop over the tokens is split into one step per *)
(* token so that the working lists can be observed between tokens.         *)
(***************************************************************************)
RootPath == Arr(<<Str(<<"$">>)>>)

RECURSIVE Flatten(_)
Flatten(lists) == IF lists = <<>> THEN <<>> ELSE Head(lists) \o Flatten(Tail(lists))

\* paths[i] of the inner loop, i counted from 1: undefined past the end
PathOfCandidate(paths, i) == IF i <= Len(paths) THEN paths[i] ELSE Undefined

\* the body of the outer loop for one token: what applyToken gave for every
\* candidate, in candidate order
TokenOutcomes(token, results, paths) ==
  [i \in 1..Len(results) |-> applyToken(token, results[i], PathOfCandidate(paths, i))]

\* paths.push(...newPaths.slice(results.length)), results being the new list
PushedPaths(paths, newPaths, newResults) == paths \o SliceFrom(newPaths, Len(newResults))

\* while (paths.length > results.length) paths.shift()
ShiftedPaths(paths, newResults) ==
  IF Len(paths) > Len(newResults)
  THEN SubSeq(paths, Len(paths) - Len(newResults) + 1, Len(paths))
  ELSE paths

\* the failure object built by the catch block
FailureResult(message) ==
  [returned |-> TRUE, success |-> FALSE, error |-> message, results |-> <<>>,
   paths |-> <<>>, count |-> 0]

\* the object returned after the loop; paths.slice(0, results.length)
SuccessResult(results, paths) ==
  [returned |-> TRUE, success |-> TRUE, error |-> "", results |-> results,
   paths |-> SubSeq(paths, 1, Min(Len(results), Len(paths))), count |-> Len(results)]

\* handleQuery with an input that does not parse
handleQueryInvalid ==
  /\ currentMode = "query"
  /\ queryPc \in {"idle", "done", "crashed"}
  /\ queryInput = EmptyText
  /\ queryOutput' = "invalid"
  /\ queryPc' = "done"
  /\ UNCHANGED <<queryInput, jsonpathInput, queryTokens, queryResults, queryPaths,
                 queryResult, diffVars, resolveVars, tokenizeVars, formatVars>>

\* handleQuery up to the first token: tokenize, results = [json], paths = [['$']]
handleQueryStart ==
  /\ currentMode = "query"
  /\ queryPc \in {"idle", "done", "crashed"}
  /\ queryInput # EmptyText
  /\ queryTokens' = tokenize(jsonpathInput)
  /\ queryResults' = <<queryInput>>
  /\ queryPaths' = <<RootPath>>
  /\ queryPc' = "loop"
  /\ UNCHANGED <<queryInput, jsonpathInput, queryResult, queryOutput, diffVars, resolveVars,
                 tokenizeVars, formatVars>>

\* the lists after one pass of the loop over the tokens, or threw
LoopPass(outcomes, paths, newResults, newPaths) ==
  [threw |-> \E i \in 1..Len(outcomes) : outcomes[i].threw,
   results |-> newResults,
   paths |-> ShiftedPaths(PushedPaths(paths, newPaths, newResults), newResults)]

LoopPassOf(outcomes, paths) ==
  LoopPass(outcomes, paths, Flatten([i \in 1..Len(outcomes) |-> outcomes[i].values]),
           Flatten([i \in 1..Len(outcomes) |-> outcomes[i].paths]))

AfterToken(token, results, paths) == LoopPassOf(TokenOutcomes(token, results, paths), paths)

\* the state after a pass: an exception ends the query with the failure
\* object, which handleQuery renders as an error
QueryPassDone(pass) ==
  IF pass.threw
  THEN /\ queryResult' = FailureResult("TypeError")
       /\ queryOutput' = "error"
       /\ queryPc' = "done"
       /\ UNCHANGED <<queryTokens, queryResults, queryPaths>>
  ELSE /\ queryResults' = pass.results
       /\ queryPaths' = pass.paths
       /\ queryTokens' = Tail(queryTokens)
       /\ UNCHANGED <<queryResult, queryOutput, queryPc>>

\* one pass of the loop over the tokens
queryApplyToken ==
  /\ queryPc = "loop"
  /\ queryTokens # <<>>
  /\ QueryPassDone(AfterToken(Head(queryTokens), queryResults, queryPaths))
  /\ UNCHANGED <<queryInput, jsonpathInput, diffVars, resolveVars, tokenizeVars, formatVars>>

\* handleQuery's rendering of a success: result.paths[i].join('.') throws
\* when the paths list is shorter than the results list, and the output is
\* then left as it was
QueryRendered(result) ==
  /\ queryResult' = result
  /\ IF Len(result.paths) < Len(result.results)
     THEN queryPc' = "crashed" /\ UNCHANGED queryOutput
     ELSE /\ queryPc' = "done"
          /\ queryOutput' = IF Len(result.results) = 0 THEN "noResults" ELSE "blocks"

\* the return after the last token, and the rendering
queryReturn ==
  /\ queryPc = "loop"
  /\ queryTokens = <<>>
  /\ QueryRendered(SuccessResult(queryResults, queryPaths))
  /\ UNCHANGED <<queryInput, jsonpathInput, queryTokens, queryResults, queryPaths, diffVars,
                 resolveVars, tokenizeVars, formatVars>>

\* queryJSONPath(json, path) as one call: the loop over the tokens run to
\* its end
RECURSIVE QueryLoop(_, _, _)
QueryLoopAfter(tokens, pass) ==
  IF pass.threw THEN FailureResult("TypeError")
  ELSE QueryLoop(Tail(tokens), pass.results, pass.paths)
QueryLoop(tokens, results, paths) ==
  IF tokens = <<>> THEN SuccessResult(results, paths)
  ELSE QueryLoopAfter(tokens, AfterToken(Head(tokens), results, paths))

queryJSONPath(json, path) == QueryLoop(tokenize(path), <<json>>, <<RootPath>>)

\* a call resolvePathLine(path, pathToLine) with the line map of a document
ResolveInit ==
  /\ resolvePath \in ResolvedPaths
  /\ pathToLine \in {stringifyWithPathMap(d).entries : d \in LineMapDocuments}
  /\ currentPath = <<>>
  /\ resolvePc = "called"
  /\ resolvedLine = 0
  /\ DiffIdle
  /\ QueryIdle
  /\ TokenizeIdle
  /\ FormatIdle
  /\ currentMode = "diff"

\* resolvePathLine up to the loop: the two early returns
resolveCall ==
  /\ resolvePc = "called"
  /\ IF resolvePath = <<>>
     THEN resolvedLine' = 1 /\ resolvePc' = "done" /\ UNCHANGED currentPath
     ELSE IF MapHas(pathToLine, resolvePath)
     THEN /\ resolvedLine' = MapGet(pathToLine, resolvePath)
          /\ resolvePc' = "done"
          /\ UNCHANGED currentPath
     ELSE /\ currentPath' = resolvePath
          /\ resolvePc' = "walk"
          /\ UNCHANGED resolvedLine
  /\ UNCHANGED <<resolvePath, pathToLine, diffVars, queryVars, tokenizeVars, formatVars>>

\* one pass of while (currentPath), given the parent
ResolveStepTo(parent) ==
  /\ currentPath' = parent
  /\ IF MapHas(pathToLine, parent)
     THEN resolvedLine' = MapGet(pathToLine, parent) /\ resolvePc' = "done"
     ELSE UNCHANGED <<resolvedLine, resolvePc>>

resolveStep ==
  /\ resolvePc = "walk"
  /\ currentPath # <<>>
  /\ ResolveStepTo(getParentPath(currentPath))
  /\ UNCHANGED <<resolvePath, pathToLine, diffVars, queryVars, tokenizeVars, formatVars>>

\* the loop ends with currentPath empty: return 1
resolveFallback ==
  /\ resolvePc = "walk"
  /\ currentPath = <<>>
  /\ resolvedLine' = 1
  /\ resolvePc' = "done"
  /\ UNCHANGED <<resolvePath, pathToLine, currentPath, diffVars, queryVars, tokenizeVars,
               formatVars>>

(***************************************************************************)
(* tokenize, one iteration of its scan loop per step.                      *)
(***************************************************************************)
\* the expressions tokenized: every text of up to MaxPathLen characters over
\* the characters the scanner tells apart, and some longer expressions:
\*   `$.items[?(@.id>1)]`, `$.items[?@.id>1]`, `[*]`, `$.x[1:3]`,
\*   `$..a['b'].*`, `a[0][1:`, `$.a]].b[zz]c`, `[?a:0]`, `$..a`,
\*   `$[?@.a>'0:1']`
TokenChars == {"$", ".", "[", "]", "*", "a", "'", "0", ":"}
LongExpressions ==
  {FilterParenthesised, FilterBare, WildcardExpression, SliceExpression(1, 3),
   <<"$", ".", ".", "a", "[", "'", "b", "'", "]", ".", "*">>,
   <<"a", "[", "0", "]", "[", "1", ":">>,
   <<"$", ".", "a", "]", "]", ".", "b", "[", "z", "z", "]", "c">>,
   <<"[", "?", "a", ":", "0", "]">>,
   <<"$", ".", ".", "a">>,
   <<"$", "[", "?", "@", ".", "a", ">", "'", "0", ":", "1", "'", "]">>}
TokenizedTexts == TextsOver(TokenChars, MaxPathLen) \cup LongExpressions

TokenizeInit ==
  /\ tokenizePath \in TokenizedTexts
  /\ tokenizeIndex = 0
  /\ tokenizeTokens = <<>>
  /\ tokenizePc = "called"
  /\ DiffIdle
  /\ QueryIdle
  /\ ResolveIdle
  /\ FormatIdle
  /\ currentMode = "query"

\* tokenize up to the loop: the early return, and the skip of a leading $
tokenizeCall ==
  /\ tokenizePc = "called"
  /\ IF tokenizePath = <<>> \/ tokenizePath = <<"$">>
     THEN tokenizePc' = "done" /\ UNCHANGED tokenizeIndex
     ELSE /\ tokenizeIndex' = (IF tokenizePath[1] = "$" THEN 1 ELSE 0)
          /\ tokenizePc' = "scan"
  /\ UNCHANGED <<tokenizePath, tokenizeTokens, diffVars, queryVars, resolveVars, formatVars>>

TokenizeStepTo(step) ==
  /\ tokenizeTokens' = tokenizeTokens \o step.tokens
  /\ tokenizeIndex' = step.next

\* one iteration of while (i < path.length)
tokenizeStep ==
  /\ tokenizePc = "scan"
  /\ tokenizeIndex < Len(tokenizePath)
  /\ TokenizeStepTo(ScanStep(tokenizePath, tokenizeIndex))
  /\ UNCHANGED <<tokenizePath, tokenizePc, diffVars, queryVars, resolveVars, formatVars>>

\* return tokens
tokenizeReturn ==
  /\ tokenizePc = "scan"
  /\ tokenizeIndex >= Len(tokenizePath)
  /\ tokenizePc' = "done"
  /\ UNCHANGED <<tokenizePath, tokenizeIndex, tokenizeTokens, diffVars, queryVars, resolveVars,
               formatVars>>

(***************************************************************************)
(* Auto-format on input (popup.js).  The clock counts milliseconds in      *)
(* steps of Tick; a timeout runs when the clock is at its due time, and    *)
(* the clock does not pass a timeout that is due.  The text of the input   *)
(* is known by the number of the input event that wrote it.                *)
(***************************************************************************)
MaxTime == 1500
MaxEvents == 3

\* debounce(handleFormat, 500)
Delay == 500

\* the clock steps five times in a Delay
Tick == Delay \div 5

\* let timeoutId: undefined in a closure debounce has just made
NoTimer == 0

\* clearTimeout(timeoutId): no timer has the id NoTimer
clearTimeout(pending, timeoutId) ==
  LET IsOther(timer) == timer.id # timeoutId
  IN SelectSeq(pending, IsOther)

\* setTimeout(callback, delay) at the time `at`, returning `id`
setTimeout(pending, id, at, delay) == Append(pending, [id |-> id, due |-> at + delay])

\* a call of the function debounce returns, whose closure holds timeoutId:
\* clearTimeout(timeoutId); timeoutId = setTimeout(() => fn(...args), delay)
DebouncedCall(pending, timeoutId, id, at, delay) ==
  setTimeout(clearTimeout(pending, timeoutId), id, at, delay)

\* debounce(handleFormat, 500)(): the listener makes a new debounced function
\* at every event and calls it once
DebounceAndCall(pending, id, at) == DebouncedCall(pending, NoTimer, id, at, Delay)

\* the timeout that runs next: the first one set among those that are due
IsNextDue(i) ==
  /\ timers[i].due = now
  /\ \A j \in 1..(i - 1) : timers[j].due # now

\* the page with the JSON input empty and auto-format as the settings give it
FormatInit ==
  /\ autoFormat \in BOOLEAN
  /\ now = 0
  /\ inputEvents = <<>>
  /\ timers = <<>>
  /\ formatCalls = <<>>
  /\ outputFor = 0
  /\ statsFor = 0
  /\ DiffIdle
  /\ QueryIdle
  /\ ResolveIdle
  /\ TokenizeIdle
  /\ currentMode = "format"

\* the 'input' listener of elements.inputJson, whose section is the one
\* shown: if (state.autoFormat) debounce(handleFormat, 500)(); updateStats()
inputEvent ==
  /\ currentMode = "format"
  /\ Len(inputEvents) < MaxEvents
  /\ inputEvents' = Append(inputEvents, now)
  /\ IF autoFormat
     THEN timers' = DebounceAndCall(timers, Len(inputEvents) + 1, now)
     ELSE UNCHANGED timers
  /\ statsFor' = Len(inputEvents) + 1
  /\ UNCHANGED <<currentMode, autoFormat, now, formatCalls, outputFor, diffVars, queryVars,
                 resolveVars, tokenizeVars>>

\* a timeout runs: () => fn(...args) with fn = handleFormat, which formats
\* the text of the input as it is now and ends with updateStats()
timeoutRuns ==
  /\ \E i \in 1..Len(timers) :
       /\ IsNextDue(i)
       /\ timers' = clearTimeout(timers, timers[i].id)
  /\ formatCalls' = Append(formatCalls, now)
  /\ outputFor' = Len(inputEvents)
  /\ statsFor' = Len(inputEvents)
  /\ UNCHANGED <<currentMode, autoFormat, now, inputEvents, diffVars, queryVars, resolveVars,
                 tokenizeVars>>

\* Tick milliseconds pass with no timeout due; the clock is followed while
\* the Format section is shown
tick ==
  /\ currentMode = "format"
  /\ now + Tick <= MaxTime
  /\ \A i \in 1..Len(timers) : timers[i].due > now
  /\ now' = now + Tick
  /\ UNCHANGED <<currentMode, autoFormat, inputEvents, timers, formatCalls, outputFor,
                 statsFor, diffVars, queryVars, resolveVars, tokenizeVars>>

TokenizeNext == tokenizeCall \/ tokenizeStep \/ tokenizeReturn

ResolveNext == resolveCall \/ resolveStep \/ resolveFallback

DiffNext == handleDiff \/ handleSwapDiff \/ handleClearDiff
QueryNext == handleQueryInvalid \/ handleQueryStart \/ queryApplyToken \/ queryReturn
FormatNext == inputEvent \/ timeoutRuns \/ tick
Init == DiffInit \/ EdgeDiffInit \/ QueryInit \/ ResolveInit \/ TokenizeInit \/ FormatInit
Next == DiffNext \/ QueryNext \/ ResolveNext \/ TokenizeNext \/ FormatNext

\* the handlers of the two tabs work on disjoint state; the properties of a
\* tab are checked on the behaviours of that tab
DiffSpec == DiffInit /\ [][DiffNext]_vars
EdgeDiffSpec == EdgeDiffInit /\ [][DiffNext]_vars
QuerySpec == QueryInit /\ [][QueryNext]_vars
ResolveSpec == ResolveInit /\ [][ResolveNext]_vars /\ WF_vars(ResolveNext)
TokenizeSpec == TokenizeInit /\ [][TokenizeNext]_vars /\ WF_vars(TokenizeNext)
FormatSpec == FormatInit /\ [][FormatNext]_vars
Spec == Init /\ [][Next]_vars

(***************************************************************************)
(* Properties of the diff engine and the similarity score.                 *)
(***************************************************************************)
\* C3: diffJSON(v, v) is the empty change list for every JSON value v.
C3_DiffOfEqualIsEmpty ==
  (diffResult.shown /\ diffInput1 = diffInput2) => diffResult.changes = <<>>

C3_Witness ==
  /\ diffResult.shown
  /\ diffInput1 = diffInput2
  /\ diffInput1 \in NestedValues
  /\ diffResult.changes = <<>>

\* C4: for every two JSON values that are not equal (objects being ordered
\* mappings, so that key order counts), the diff is non-empty; both orders of
\* every pair are compared, so this covers diffJSON(v2, v1) too.
C4_UnequalValuesDiffer ==
  (diffResult.shown /\ diffInput1 # diffInput2) => diffResult.changes # <<>>

\* C5: calculateSimilarity returns an integer in 0 .. 100 for every pair.
C5_SimilarityInRange ==
  diffResult.shown => diffResult.similarity \in 0..100

\* more changes than half the node total: the raw percentage is negative
C5_Witness ==
  /\ diffResult.shown
  /\ 2 * Len(diffResult.changes) > countNodes(diffInput1) + countNodes(diffInput2)
  /\ diffResult.similarity = 0

\* C6: calculateSimilarity(v, v) is 100 for every JSON value v.
C6_SimilarityOfEqualIs100 ==
  (diffResult.shown /\ diffInput1 = diffInput2) => diffResult.similarity = 100

\* the empty object against itself: node total 0
C6_Witness ==
  /\ diffResult.shown
  /\ diffInput1 = Obj(<<>>)
  /\ diffInput2 = Obj(<<>>)
  /\ countNodes(diffInput1) + countNodes(diffInput2) = 0
  /\ diffResult.similarity = 100

(***************************************************************************)
(* The order of the change list, read back from the path strings.          *)
(***************************************************************************)
KeySegment(key) == [kind |-> "key", key |-> key, index |-> 0]
IndexSegment(i) == [kind |-> "index", key |-> <<>>, index |-> i]

\* the segments a path string such as a.b[0].c was built from
RECURSIVE PathSegments(_)
PathSegments(path) ==
  IF path = <<>> THEN <<>>
  ELSE IF Head(path) = "." THEN PathSegments(Tail(path))
  ELSE IF Head(path) = "["
  THEN LET close == FirstOf(path, {"]"})
       IN <<IndexSegment(DigitsToNat(SubSeq(path, 2, close - 1)))>>
            \o PathSegments(SubSeq(path, close + 1, Len(path)))
  ELSE LET stop == FirstOf(path, {".", "["})
       IN <<KeySegment(SubSeq(path, 1, stop - 1))>>
            \o PathSegments(SubSeq(path, stop, Len(path)))

\* keys of the left object in left order, then the keys only in the right
\* object in right order
UnionOrder(left, right) ==
  Keys(left) \o SelectSeq(Keys(right), LAMBDA k : \A i \in 1..Len(Keys(left)) : Keys(left)[i] # k)

\* the place of a segment in the walk over the pair (left, right)
VisitRank(left, right, seg) ==
  IF seg.kind = "index" THEN seg.index
  ELSE LET order == UnionOrder(left, right)
       IN IF \E i \in 1..Len(order) : order[i] = seg.key
          THEN CHOOSE i \in 1..Len(order) : order[i] = seg.key
          ELSE 0

ChildAt(x, seg) == IF seg.kind = "index" THEN At(x, seg.index) ELSE Get(x, seg.key)

\* the location p is visited before the location q by a depth-first
\* pre-order walk over the pair (left, right)
RECURSIVE VisitedBefore(_, _, _, _)
VisitedBefore(left, right, p, q) ==
  IF p = <<>> THEN q # <<>>
  ELSE IF q = <<>> THEN FALSE
  ELSE IF Head(p) = Head(q)
  THEN VisitedBefore(ChildAt(left, Head(p)), ChildAt(right, Head(p)), Tail(p), Tail(q))
  ELSE /\ Head(p).kind = Head(q).kind
       /\ VisitRank(left, right, Head(p)) < VisitRank(left, right, Head(q))

\* C10: the change list is in depth-first pre-order of the comparison walk
\* (indices ascending; keys of the left object in left order, then the keys
\* only in the right object in right order), not grouped by kind; scenario A
\* gives exactly [Changed b 2 -> 3, Added c 4].
C10_ChangesInWalkOrder ==
  diffResult.shown =>
    /\ \A i, j \in 1..Len(diffResult.changes) :
         i < j => VisitedBefore(diffInput1, diffInput2,
                                PathSegments(diffResult.changes[i].path),
                                PathSegments(diffResult.changes[j].path))
    /\ (diffInput1 = ScenarioALeft /\ diffInput2 = ScenarioARight) =>
         diffResult.changes = <<ChangedRec(KeyB, Num(2), Num(3)), AddedRec(KeyC, Num(4))>>

\* scenario A: a Changed record precedes an Added one
C10_Witness ==
  /\ diffResult.shown
  /\ diffInput1 = ScenarioALeft
  /\ diffInput2 = ScenarioARight
  /\ Len(diffResult.changes) = 2
  /\ diffResult.changes[1].type = "changed"
  /\ diffResult.changes[2].type = "added"

(***************************************************************************)
(* Properties of the query evaluator.                                      *)
(***************************************************************************)
\* the value a path ['$', seg, ...] leads to from the root; undefined when a
\* segment does not exist
FollowStep(x, segment) ==
  IF segment.t = "num" THEN (IF IsArray(x) THEN At(x, segment.v) ELSE Undefined)
  ELSE IF segment.t = "str" /\ HasOwn(x, segment.v) THEN Get(x, segment.v)
  ELSE Undefined

RECURSIVE FollowSegments(_, _)
FollowSegments(x, segments) ==
  IF segments = <<>> THEN x
  ELSE FollowSegments(FollowStep(x, Head(segments)), Tail(segments))

FollowPath(root, path) ==
  IF path.t = "arr" /\ Len(path.v) >= 1 /\ path.v[1] = Str(<<"$">>)
  THEN FollowSegments(root, Tail(path.v))
  ELSE Undefined

PathsReachResults(root, results, paths) ==
  /\ Len(paths) = Len(results)
  /\ \A i \in 1..Len(results) : i <= Len(paths) => FollowPath(root, paths[i]) = results[i]

\* C1: after any number of tokens, and in every successful result, the paths
\* list has as many entries as the results list (both equal to count) and
\* following paths[i] from the root reaches results[i].
C1_PathsMatchResults ==
  /\ queryPc = "loop" => PathsReachResults(queryInput, queryResults, queryPaths)
  /\ (queryResult.returned /\ queryResult.success) =>
       /\ queryResult.count = Len(queryResult.results)
       /\ PathsReachResults(queryInput, queryResult.results, queryResult.paths)

\* the path ['$', key, i]
PathUnderKey(key, i) == Arr(<<Str(<<"$">>), Str(key), Num(i)>>)

\* a document {"items": [objects with a numeric id]}
IsItemsWithNumericIds(doc) ==
  /\ doc.t = "obj" /\ Keys(doc) = <<KeyItems>>
  /\ IsArray(Get(doc, KeyItems))
  /\ \A i \in 0..(Length(Get(doc, KeyItems)) - 1) :
       /\ HasOwn(At(Get(doc, KeyItems), i), KeyId)
       /\ Get(At(Get(doc, KeyItems), i), KeyId).t = "num"

\* the indices of the items whose id is greater than n, ascending
RECURSIVE IndicesWithIdAbove(_, _, _)
IndicesWithIdAbove(items, n, i) ==
  IF i >= Length(items) THEN <<>>
  ELSE (IF Get(At(items, i), KeyId).v > n THEN <<i>> ELSE <<>>)
         \o IndicesWithIdAbove(items, n, i + 1)

ResultIsElements(result, array, key, indices) ==
  /\ result.success
  /\ result.count = Len(indices)
  /\ result.results = [n \in 1..Len(indices) |-> At(array, indices[n])]
  /\ result.paths = [n \in 1..Len(indices) |-> PathUnderKey(key, indices[n])]

\* C2: `$.items[?(@.id>1)]` returns exactly the elements whose id is greater
\* than 1, in index order, each with the path of its own index.
C2_ParenthesisedFilterSelects ==
  (queryResult.returned /\ jsonpathInput = FilterParenthesised
     /\ IsItemsWithNumericIds(queryInput)) =>
    ResultIsElements(queryResult, Get(queryInput, KeyItems), KeyItems,
                     IndicesWithIdAbove(Get(queryInput, KeyItems), 1, 0))

\* C7: the expressions "$" and "" succeed with exactly one match, whose value
\* is the root and whose path is the root path (no segment after the "$").
C7_RootExpressionSelectsRoot ==
  (queryResult.returned /\ jsonpathInput \in {<<>>, <<"$">>}) =>
    /\ queryResult.success
    /\ queryResult.count = 1
    /\ queryResult.results = <<queryInput>>
    /\ queryResult.paths = <<RootPath>>

C7_Witness ==
  /\ queryResult.returned
  /\ jsonpathInput = <<"$">>
  /\ queryInput \in NestedValues
  /\ queryResult.results = <<queryInput>>

\* C8: on a root array of length n the query "[*]" succeeds with exactly n
\* matches, the i-th being element i of the array.
C8_WildcardSelectsEveryElement ==
  (queryResult.returned /\ jsonpathInput = WildcardExpression /\ IsArray(queryInput)) =>
    /\ queryResult.success
    /\ queryResult.count = Length(queryInput)
    /\ Len(queryResult.results) = Length(queryInput)
    /\ \A i \in 1..Length(queryInput) : queryResult.results[i] = At(queryInput, i - 1)

C8_Witness ==
  /\ queryResult.returned
  /\ jsonpathInput = WildcardExpression
  /\ IsArray(queryInput)
  /\ Length(queryInput) = MaxLen
  /\ queryResult.count = MaxLen

IsSliceOfX(expr) ==
  \E s, e \in 0..MaxIndex : s <= e /\ expr = SliceExpression(s, e)
SliceStart(expr) == CHOOSE s \in 0..MaxIndex : \E e \in 0..MaxIndex : expr = SliceExpression(s, e)
SliceEnd(expr) == CHOOSE e \in 0..MaxIndex : \E s \in 0..MaxIndex : expr = SliceExpression(s, e)

\* C9: `$.x[s:e]` with 0 <= s <= e returns the elements at the indices
\* s .. min(e, length) - 1 in index order, each at the path x[i] of its index.
C9_SliceSelectsRange ==
  (queryResult.returned /\ queryInput \in XDocuments \cup {ScenarioCRoot}
     /\ IsSliceOfX(jsonpathInput)) =>
    ResultIsElements(queryResult, Get(queryInput, KeyX), KeyX,
                     [n \in 1..(Min(SliceEnd(jsonpathInput), Length(Get(queryInput, KeyX)))
                                  - SliceStart(jsonpathInput)) |->
                        SliceStart(jsonpathInput) + n - 1])

(***************************************************************************)
(* Properties of the path-to-line resolver.                                *)
(***************************************************************************)
\* a text of the form [n], n one or more digits
IsIndexSegment(text) ==
  /\ Len(text) >= 3
  /\ text[1] = "[" /\ text[Len(text)] = "]"
  /\ \A i \in 2..(Len(text) - 1) : text[i] \in Digits

\* a text of the form .key, the key holding no dot
IsDottedKeySegment(text) ==
  /\ Len(text) >= 1
  /\ text[1] = "."
  /\ \A i \in 2..Len(text) : text[i] # "."

IsTrailingSegment(text) == IsIndexSegment(text) \/ IsDottedKeySegment(text)

\* the number of characters of the shortest trailing segment of a path, the
\* whole path when it ends in none (a single key at the root)
TrailingSegmentLength(path) ==
  IF \E n \in 1..Len(path) : IsTrailingSegment(SubSeq(path, Len(path) - n + 1, Len(path)))
  THEN CHOOSE n \in 1..Len(path) :
         /\ IsTrailingSegment(SubSeq(path, Len(path) - n + 1, Len(path)))
         /\ \A m \in 1..(n - 1) :
              ~IsTrailingSegment(SubSeq(path, Len(path) - m + 1, Len(path)))
  ELSE Len(path)

WithoutTrailingSegment(path) == SubSeq(path, 1, Len(path) - TrailingSegmentLength(path))

\* the path itself when recorded, otherwise its nearest recorded ancestor;
\* the empty path when there is none
RECURSIVE NearestRecorded(_, _)
NearestRecorded(path, entries) ==
  IF path = <<>> \/ MapHas(entries, path) THEN path
  ELSE NearestRecorded(WithoutTrailingSegment(path), entries)

ScenarioDPath == <<"a", ".", "b", ".", "c">>
ScenarioDMap == stringifyWithPathMap(ScenarioDRoot).entries

\* C11: resolvePathLine returns the line recorded for the path itself when
\* the path is recorded, and otherwise the line recorded for its nearest
\* recorded ancestor, one trailing segment ([n] or .key) stripped at a time;
\* with the line map of {"a":{"b":1}}, a.b.c resolves to the line of a.b.
C11_ResolvesToNearestRecorded ==
  resolvePc = "done" =>
    /\ MapHas(pathToLine, resolvePath) => resolvedLine = MapGet(pathToLine, resolvePath)
    /\ NearestRecorded(resolvePath, pathToLine) # <<>> =>
         resolvedLine = MapGet(pathToLine, NearestRecorded(resolvePath, pathToLine))
    /\ (resolvePath = ScenarioDPath /\ pathToLine = ScenarioDMap) =>
         /\ MapHas(pathToLine, <<"a", ".", "b">>)
         /\ resolvedLine = MapGet(pathToLine, <<"a", ".", "b">>)
         /\ resolvedLine = 3

\* scenario D: a.b.c is not recorded and resolves to line 3, the line of a.b
C11_Witness ==
  /\ resolvePc = "done"
  /\ resolvePath = ScenarioDPath
  /\ pathToLine = ScenarioDMap
  /\ ~MapHas(pathToLine, resolvePath)
  /\ currentPath = <<"a", ".", "b">>
  /\ resolvedLine = 3

\* C16: resolvePathLine terminates with a line number for every path and
\* every line map: every pass of its loop leaves a strictly shorter path,
\* the call ends, the result is a line number (1 or a recorded line), and it
\* is 1 when neither the path nor an ancestor is recorded and for the empty
\* path.
C16_ResolveTerminates ==
  /\ [][resolveStep => Len(currentPath') < Len(currentPath)]_vars
  /\ <>(resolvePc = "done")
  /\ [](resolvePc = "done" =>
          /\ resolvedLine \in Nat /\ resolvedLine >= 1
          /\ NearestRecorded(resolvePath, pathToLine) = <<>> => resolvedLine = 1)

\* an unrecorded path of several segments walked up to the root
C16_Witness ==
  /\ resolvePc = "done"
  /\ pathToLine # <<>>
  /\ Len(resolvePath) >= 5
  /\ NearestRecorded(resolvePath, pathToLine) = <<>>
  /\ currentPath = <<>>
  /\ resolvedLine = 1

(***************************************************************************)
(* Properties of the tokenizer.                                            *)
(***************************************************************************)
\* C14: tokenize terminates with a token list for every expression: every
\* iteration of the scan loop advances the position by at least one
\* character, the call ends, and the empty expression and "$" give the empty
\* token list; bracket content that is not recognised pushes no token.
C14_TokenizeTerminates ==
  /\ [][tokenizeStep => tokenizeIndex' >= tokenizeIndex + 1]_vars
  /\ <>(tokenizePc = "done")
  /\ [](tokenizePc = "done" =>
          /\ tokenizePath \in {<<>>, <<"$">>} => tokenizeTokens = <<>>
          /\ tokenizePath = <<"[", "a", "]">> => tokenizeTokens = <<>>
          /\ tokenizeTokens = tokenize(tokenizePath))

\* an unbalanced bracket after a stray ']': `]a[`
C14_Witness ==
  /\ tokenizePc = "done"
  /\ tokenizePath = <<"]", "a", "[">>
  /\ tokenizeIndex > Len(tokenizePath)
  /\ tokenizeTokens = <<KeyToken(<<"]", "a">>)>>

(***************************************************************************)
(* Properties of the query evaluator: failures.                            *)
(***************************************************************************)
\* the text of a filter is a single comparison @.<property> <op> <literal>
IsSingleComparison(expression) ==
  HasPrefix(expression, <<"@", ".">>) /\ RegexMatch(expression).ok

FilterTokens(tokens) == SelectSeq(tokens, LAMBDA token : token.type = "filter")

AllFiltersWellFormed(expr) ==
  \A i \in 1..Len(FilterTokens(tokenize(expr))) :
    IsSingleComparison(FilterTokens(tokenize(expr))[i].expression)

SomeFilterMalformed(expr) ==
  \E i \in 1..Len(FilterTokens(tokenize(expr))) :
    ~RegexMatch(FilterTokens(tokenize(expr))[i].expression).ok

\* C12: queryJSONPath returns a success result, possibly with no match, and
\* never a failure, for every root and every expression whose filters are
\* well-formed single comparisons.
C12_WellFormedQuerySucceeds ==
  (queryResult.returned /\ AllFiltersWellFormed(jsonpathInput)) => queryResult.success

\* C13: when the expression holds a filter whose text is not a single
\* comparison, queryJSONPath returns a failure result with a message.
C13_MalformedFilterFails ==
  (queryResult.returned /\ SomeFilterMalformed(jsonpathInput)) =>
    (~queryResult.success /\ queryResult.error # "")

ExpectedAtIndex(a, b, path, i) ==
  IF i >= Length(a)
  THEN <<[type |-> "added", path |-> path \o <<"[">> \o NatToString(i) \o <<"]">>,
          old |-> Undefined, new |-> At(b, i)]>>
  ELSE IF i >= Length(b)
  THEN <<[type |-> "removed", path |-> path \o <<"[">> \o NatToString(i) \o <<"]">>,
          old |-> At(a, i), new |-> Undefined]>>
  ELSE Compare(At(a, i), At(b, i), path \o <<"[">> \o NatToString(i) \o <<"]">>)

ExpectedForArrays(a, b, path) ==
  Flatten([n \in 1..Max(Length(a), Length(b)) |-> ExpectedAtIndex(a, b, path, n - 1)])

\* a is b cut after its first Length(a) elements
IsPrefixArray(a, b) ==
  Length(a) <= Length(b) /\ \A i \in 0..(Length(a) - 1) : At(a, i) = At(b, i)

HoldsArrayUnderA(x) == x.t = "obj" /\ Keys(x) = <<KeyA>> /\ IsArray(Get(x, KeyA))

\* C17: two arrays are compared index by index, 0 .. max(len a, len b) - 1
\* ascending: an index at or beyond len a gives exactly one Added record with
\* the right element, an index at or beyond len b exactly one Removed record
\* with the left element, both at "<path>[i]", an index in both is compared
\* recursively; arrays that differ only in length by k give exactly k records.
C17_ArraysComparedByIndex ==
  diffResult.shown =>
    /\ (IsArray(diffInput1) /\ IsArray(diffInput2)) =>
         /\ diffResult.changes = ExpectedForArrays(diffInput1, diffInput2, <<>>)
         /\ IsPrefixArray(diffInput1, diffInput2) =>
              Len(diffResult.changes) = Length(diffInput2) - Length(diffInput1)
         /\ IsPrefixArray(diffInput2, diffInput1) =>
              Len(diffResult.changes) = Length(diffInput1) - Length(diffInput2)
    /\ (HoldsArrayUnderA(diffInput1) /\ HoldsArrayUnderA(diffInput2)) =>
         diffResult.changes =
           ExpectedForArrays(Get(diffInput1, KeyA), Get(diffInput2, KeyA), KeyA)

\* the empty array against an array of MaxLen elements: MaxLen Added records
C17_Witness ==
  /\ diffResult.shown
  /\ IsArray(diffInput1) /\ IsArray(diffInput2)
  /\ Length(diffInput1) = 0
  /\ Length(diffInput2) = MaxLen
  /\ Len(diffResult.changes) = MaxLen
  /\ \A i \in 1..MaxLen : diffResult.changes[i].type = "added"

\* what the comparison of the objects a and b at `path` yields for a key
ExpectedAtKey(a, b, path, key) ==
  IF ~HasOwn(a, key)
  THEN <<[type |-> "added", path |-> KeyPath(path, key), old |-> Undefined,
          new |-> Get(b, key)]>>
  ELSE IF ~HasOwn(b, key)
  THEN <<[type |-> "removed", path |-> KeyPath(path, key), old |-> Get(a, key),
          new |-> Undefined]>>
  ELSE Compare(Get(a, key), Get(b, key), KeyPath(path, key))

\* C18: for two objects and each key of the union: a key that is not an own
\* key of the left object gives an Added record, a key that is not an own
\* key of the right object a Removed record, a key of both is compared
\* recursively at "<path>.<key>" (bare "<key>" at the root); for every key
\* name, "constructor" included.
C18_ObjectsComparedByOwnKey ==
  (diffResult.shown /\ diffInput1.t = "obj" /\ diffInput2.t = "obj") =>
    diffResult.changes =
      Flatten([n \in 1..Len(UnionOrder(diffInput1, diffInput2)) |->
                 ExpectedAtKey(diffInput1, diffInput2, <<>>,
                               UnionOrder(diffInput1, diffInput2)[n])])

\* the kind of a JSON value
KindOf(x) == IF x.t \in {"null", "arr", "obj"} THEN x.t ELSE TypeOf(x)

IsProperPrefix(p, q) == Len(p) < Len(q) /\ SubSeq(q, 1, Len(p)) = p

\* C19: every change record sits at the exact point of divergence: when
\* exactly one side is null or the two sides are of different kinds (array
\* against object included), exactly one Changed record is emitted at that
\* path and nothing below it is compared; no record's path is a proper
\* ancestor of the path of another record of the same change list.
C19_RecordsAtDivergence ==
  diffResult.shown =>
    /\ KindOf(diffInput1) # KindOf(diffInput2) =>
         diffResult.changes = <<ChangedRec(<<>>, diffInput1, diffInput2)>>
    /\ \A i, j \in 1..Len(diffResult.changes) :
         i # j => ~IsProperPrefix(PathSegments(diffResult.changes[i].path),
                                  PathSegments(diffResult.changes[j].path))

\* the node count of the formula: 1 for a primitive or null, 1 plus the
\* counts of the elements for an array, the number of keys plus the counts of
\* the values for an object
RECURSIVE nodeCount(_)
nodeCount(x) ==
  IF x.t = "arr" THEN 1 + SumSeq([i \in 1..Len(x.v) |-> nodeCount(x.v[i])])
  ELSE IF x.t = "obj"
  THEN Len(x.v) + SumSeq([i \in 1..Len(x.v) |-> nodeCount(x.v[i].val)])
  ELSE 1

\* ((total - 2c) / total) * 100 over the rationals, clamped to 0..100 and
\* rounded half-up: the integer r with 2r * total <= 200 (total - 2c) + total
\* < 2 (r + 1) * total, inside the clamp
IsFormulaResult(r, total, c) ==
  IF total = 0 THEN r = 100
  ELSE IF total - 2 * c <= 0 THEN r = 0
  ELSE /\ r \in 0..100
       /\ 2 * r * total <= 200 * (total - 2 * c) + total
       /\ 200 * (total - 2 * c) + total < 2 * (r + 1) * total

\* C20: calculateSimilarity equals the formula for every pair: with total the
\* sum of the node counts of the two sides and c the length of their diff,
\* the result is 100 when total is 0 and otherwise ((total - 2c) / total) * 100
\* clamped to 0..100 and rounded half-up; {"a":1,"b":2} against
\* {"a":1,"b":3,"c":4} has total 10, c 2 and result 60.
C20_SimilarityMatchesFormula ==
  diffResult.shown =>
    /\ IsFormulaResult(diffResult.similarity,
                       nodeCount(diffInput1) + nodeCount(diffInput2),
                       Len(diffResult.changes))
    /\ (diffInput1 = ScenarioALeft /\ diffInput2 = ScenarioARight) =>
         /\ nodeCount(diffInput1) + nodeCount(diffInput2) = 10
         /\ Len(diffResult.changes) = 2
         /\ diffResult.similarity = 60

(***************************************************************************)
(* Properties of the tokenizer: the tokens of a bracket group.             *)
(***************************************************************************)
\* the content of the bracket group opened at position i: the characters
\* after the '[' up to the next ']' or the end of the expression
GroupContentAt(path, i) ==
  SubSeq(SliceFrom(path, i + 1), 1, FirstOf(SliceFrom(path, i + 1), {"]"}) - 1)

\* the scan loop is at a bracket group whose content starts with '?'
AtFilterGroup ==
  /\ CharAt(tokenizePath, tokenizeIndex) = "["
  /\ CharAt(tokenizePath, tokenizeIndex + 1) = "?"

\* C21: tokenize turns every bracket group whose content starts with '?' into
\* one Filter token whose expression is the content after the '?', whatever
\* else the content holds, a ':' included.
C21_FilterGroupGivesFilterToken ==
  [][(tokenizeStep /\ AtFilterGroup) =>
       tokenizeTokens' = Append(tokenizeTokens,
         FilterToken(SliceFrom(GroupContentAt(tokenizePath, tokenizeIndex), 1)))]_vars

\* the expression with every run of dots cut down to one dot
RECURSIVE CollapseDots(_)
CollapseDots(path) ==
  IF Len(path) < 2 THEN path
  ELSE IF path[1] = "." /\ path[2] = "." THEN CollapseDots(Tail(path))
  ELSE <<path[1]>> \o CollapseDots(Tail(path))

HasBracket(path) == \E k \in 1..Len(path) : path[k] = "["

\* C22: tokenize never emits a Recursive token: every '.' is consumed by the
\* single-dot skip, so a run of dots outside a bracket group reads as one dot
\* and "$..a" tokenizes to the same list as "$.a".
C22_NoRecursiveToken ==
  /\ \A k \in 1..Len(tokenizeTokens) : tokenizeTokens[k].type # "recursive"
  /\ tokenizePc = "done" =>
       /\ ~HasBracket(tokenizePath) =>
            tokenizeTokens = tokenize(CollapseDots(tokenizePath))
       /\ tokenizePath = <<"$", ".", ".", "a">> =>
            tokenizeTokens = tokenize(<<"$", ".", "a">>)

C22_Witness ==
  /\ tokenizePc = "done"
  /\ tokenizePath = <<"$", ".", ".", "a">>
  /\ tokenizeTokens = <<KeyToken(<<"a">>)>>

(***************************************************************************)
(* Properties of the filter evaluator.                                     *)
(***************************************************************************)
\* the truth value of x <op> n for two numbers
NumberComparison(op, x, n) ==
  IF op = <<"=", "=">> THEN x = n
  ELSE IF op = <<"!", "=">> THEN x # n
  ELSE IF op = <<">">> THEN x > n
  ELSE IF op = <<"<">> THEN x < n
  ELSE IF op = <<">", "=">> THEN x >= n
  ELSE x <= n

\* the items whose id stands in the relation op to n, in index order
ItemsWithId(items, op, n) ==
  SelectSeq(items.v, LAMBDA item : NumberComparison(op, Get(item, KeyId).v, n))

\* C23: evaluateFilter supports each of ==, !=, >, <, >=, <=: on items with
\* a numeric id, the filter `@.id <op> n` keeps exactly the items for which
\* item.id <op> n is true; `@.id>=n` keeps those with id >= n and `@.id<=n`
\* those with id <= n.
C23_SixOperatorsCompare ==
  \A a \in 1..Len(OperatorAlternatives), n \in 1..MaxNum :
    (queryResult.returned /\ IsItemsWithNumericIds(queryInput)
       /\ jsonpathInput = ComparisonExpression(OperatorAlternatives[a], n)) =>
      /\ queryResult.success
      /\ queryResult.results =
           ItemsWithId(Get(queryInput, KeyItems), OperatorAlternatives[a], n)

\* the text holds, somewhere, "@." and a property of w word characters, then
\* b blanks, an operator and at least one more character for the literal
ShapeAt(text, p, w, b, op) ==
  /\ p + 1 + w + b + Len(op) < Len(text)
  /\ text[p] = "@" /\ text[p + 1] = "."
  /\ \A k \in (p + 2)..(p + 1 + w) : text[k] \in WordChars
  /\ \A k \in (p + 2 + w)..(p + 1 + w + b) : text[k] \in SpaceChars
  /\ SubSeq(text, p + 2 + w + b, p + 1 + w + b + Len(op)) = op

HasComparisonShape(text) ==
  \E p \in 1..Len(text), w \in 1..Len(text), b \in 0..Len(text),
     a \in 1..Len(OperatorAlternatives) :
    ShapeAt(text, p, w, b, OperatorAlternatives[a])

\* the expression is `$.items[?<text>]` for a text without the comparison shape
IsMalformedItemsFilter(expr) ==
  /\ Len(tokenize(expr)) = 2
  /\ tokenize(expr)[1] = KeyToken(KeyItems)
  /\ tokenize(expr)[2].type = "filter"
  /\ ~HasComparisonShape(tokenize(expr)[2].expression)

\* C24: evaluateFilter returns false, without raising, for every filter text
\* that does not have the shape @.<property> <op> <literal> (no "@."
\* property, no operator or no literal), for every item, null included; such
\* a filter keeps no element of the array.
C24_MalformedFilterIsFalse ==
  (queryResult.returned /\ IsMalformedItemsFilter(jsonpathInput)
     /\ queryInput.t = "obj" /\ HasOwn(queryInput, KeyItems)
     /\ IsArray(Get(queryInput, KeyItems))) =>
    /\ \A i \in 0..(Length(Get(queryInput, KeyItems)) - 1) :
         evaluateFilter(At(Get(queryInput, KeyItems), i),
                        tokenize(jsonpathInput)[2].expression)
           = [threw |-> FALSE, value |-> FALSE]
    /\ queryResult.success
    /\ queryResult.results = <<>>
    /\ queryResult.count = 0

\* a filter without a literal over an array that holds a null
C24_Witness ==
  /\ queryResult.returned
  /\ jsonpathInput = <<"$", ".", "i", "t", "e", "m", "s", "[", "?", "@", ".", "i", "d", ">", "]">>
  /\ queryInput = Obj(<<Entry(KeyItems, Arr(<<Obj(<<Entry(KeyId, Num(2))>>), Null>>))>>)
  /\ queryResult.success
  /\ queryResult.count = 0

(***************************************************************************)
(* Properties of the slice.                                                *)
(***************************************************************************)
\* the expression is `$.<key>[<start>:<end>]`
IsSliceUnderKey(expr) ==
  /\ Len(tokenize(expr)) = 2
  /\ tokenize(expr)[1].type = "key"
  /\ tokenize(expr)[2].type = "slice"

\* the index a pushed path ends with
LastSegment(path) == path.v[Len(path.v)]

\* the values are elements of the array at the indices the paths end with,
\* every index is in 0 .. length-1 and the indices ascend strictly
IsAscendingSelection(emission, array) ==
  /\ \A n \in 1..Len(emission.values) :
       /\ LastSegment(emission.paths[n]).t = "num"
       /\ LastSegment(emission.paths[n]).v \in 0..(Length(array) - 1)
       /\ emission.values[n] = At(array, LastSegment(emission.paths[n]).v)
  /\ \A n \in 1..(Len(emission.values) - 1) :
       LastSegment(emission.paths[n]).v < LastSegment(emission.paths[n + 1]).v

\* what the slice of the expression emits for the value under its key
SliceEmission(root, expr) ==
  applyToken(tokenize(expr)[2], Get(root, tokenize(expr)[1].value.v), RootPath)

\* C25: a Slice token applied to an array emits only elements of the array,
\* each with an index in 0 .. length-1, in ascending index order and at most
\* once, for every combination of bounds the tokenizer produces (start
\* absent, end absent, end beyond the length, negative start); applied to a
\* value that is not an array it emits nothing.
C25_SliceEmitsElementsInOrder ==
  (queryResult.returned /\ IsSliceUnderKey(jsonpathInput)
     /\ queryInput.t = "obj"
     /\ HasOwn(queryInput, tokenize(jsonpathInput)[1].value.v)) =>
    /\ ~SliceEmission(queryInput, jsonpathInput).threw
    /\ queryResult.success
    /\ queryResult.results = SliceEmission(queryInput, jsonpathInput).values
    /\ IF IsArray(Get(queryInput, tokenize(jsonpathInput)[1].value.v))
       THEN IsAscendingSelection(SliceEmission(queryInput, jsonpathInput),
                                 Get(queryInput, tokenize(jsonpathInput)[1].value.v))
       ELSE queryResult.results = <<>>

(***************************************************************************)
(* Properties of the loop over the tokens.                                 *)
(***************************************************************************)
\* the values a token gives for one candidate
ValuesOf(token, candidate) == applyToken(token, candidate, RootPath).values

\* the concatenation, over the candidates in their order, of the values the
\* token gives for each
ConcatenatedValues(token, candidates) ==
  Flatten([i \in 1..Len(candidates) |-> ValuesOf(token, candidates[i])])

\* no filter of the token raises on a candidate
AppliesToAll(token, candidates) ==
  \A i \in 1..Len(candidates) : ~applyToken(token, candidates[i], RootPath).threw

\* C26: after each token the working list of queryJSONPath is the
\* concatenation, over the previous candidates in their order, of the results
\* of applying the token to each candidate (results of an earlier candidate
\* before those of a later one); an empty working list stays empty.
C26_WorkingListIsConcatenation ==
  [][(queryApplyToken /\ AppliesToAll(Head(queryTokens), queryResults)) =>
       /\ queryPc' = "loop"
       /\ queryResults' = ConcatenatedValues(Head(queryTokens), queryResults)
       /\ queryResults = <<>> => queryResults' = <<>>]_vars

(***************************************************************************)
(* Properties of the diff: the two directions.                             *)
(***************************************************************************)
\* the record of the other direction: Added and Removed change places, a
\* Changed record changes its old and new values
MirrorOf(record) ==
  IF record.type = "added" THEN RemovedRec(record.path, record.new)
  ELSE IF record.type = "removed" THEN AddedRec(record.path, record.old)
  ELSE ChangedRec(record.path, record.new, record.old)

CountOf(records, record) == Cardinality({i \in 1..Len(records) : records[i] = record})

\* every record of one list has its mirror in the other, as often
MirrorEachOther(forward, backward) ==
  /\ Len(forward) = Len(backward)
  /\ \A i \in 1..Len(forward) :
       CountOf(backward, MirrorOf(forward[i])) = CountOf(forward, forward[i])

\* C27: diffJSON(a, b) and diffJSON(b, a) have the same number of records and
\* mirror each other (Added at p against Removed at p, Changed at p with old
\* and new exchanged), and calculateSimilarity(a, b) = calculateSimilarity(b, a):
\* handleSwapDiff shows the mirror of the diff that was shown, with the same
\* score.
C27_SwappedDiffMirrors ==
  [][(handleSwapDiff /\ diffResult.shown) =>
       /\ diffResult'.shown
       /\ MirrorEachOther(diffResult.changes, diffResult'.changes)
       /\ diffResult'.similarity = diffResult.similarity]_vars

\* scenario A the other way round: b changed back, c removed
C27_Witness ==
  /\ diffResult.shown
  /\ diffInput1 = ScenarioARight
  /\ diffInput2 = ScenarioALeft
  /\ diffResult.changes = <<ChangedRec(KeyB, Num(3), Num(2)), RemovedRec(KeyC, Num(4))>>
  /\ diffResult.similarity = 60

(***************************************************************************)
(* Properties of the line highlighting.                                    *)
(***************************************************************************)
\* the line maps handleDiff builds for the two documents
LeftLineMap == stringifyWithPathMap(diffInput1).entries
RightLineMap == stringifyWithPathMap(diffInput2).entries

\* the path of the record is a line of its own in the documents it is
\* resolved against
IsRecordedWhereResolved(record) ==
  IF record.type = "changed"
  THEN record.path = <<>>
         \/ (MapHas(LeftLineMap, record.path) /\ MapHas(RightLineMap, record.path))
  ELSE IF record.type = "removed" THEN MapHas(LeftLineMap, record.path)
  ELSE MapHas(RightLineMap, record.path)

\* C28: every record of diffJSON(L, R) is resolved without the ancestor
\* fallback: a Changed path is the root or is recorded in the line maps of
\* both documents, a Removed path in the line map of L and an Added path in
\* the line map of R, the line maps being those of stringifyWithPathMap.
C28_RecordPathsAreRecorded ==
  diffResult.shown =>
    \A i \in 1..Len(diffResult.changes) : IsRecordedWhereResolved(diffResult.changes[i])

\* the classes of the changes that resolve to the line, on one side
KindsAtLine(changes, entries, line, types) ==
  {Priority("diff-inline-" \o changes[i].type) :
     i \in {j \in 1..Len(changes) :
              /\ changes[j].type \in types
              /\ resolvePathLine(changes[j].path, entries) = line}}

\* the map gives a class to the lines some change resolves to, and the class
\* is the one of highest priority among those changes
IsHighestPriorityMap(lineMap, changes, entries, types) ==
  /\ DOMAIN lineMap =
       {resolvePathLine(changes[j].path, entries) :
          j \in {i \in 1..Len(changes) : changes[i].type \in types}}
  /\ \A line \in DOMAIN lineMap :
       /\ Priority(lineMap[line]) \in KindsAtLine(changes, entries, line, types)
       /\ \A p \in KindsAtLine(changes, entries, line, types) : p <= Priority(lineMap[line])

Reversed(seq) == [i \in 1..Len(seq) |-> seq[Len(seq) + 1 - i]]
Rotated(seq) == IF seq = <<>> THEN seq ELSE Append(Tail(seq), Head(seq))

\* every order of a list of n changes, for the lists of up to MaxPermuted
MaxPermuted == 3
OrdersOf(n) == {p \in [1..n -> 1..n] : \A i, j \in 1..n : p[i] = p[j] => i = j}
Permuted(seq, p) == [i \in 1..Len(seq) |-> seq[p[i]]]

\* going through the loop body with one more change keeps every line that
\* has a class and gives it a class of the same or a higher priority
IsNeverLowered(before, after) ==
  \A line \in DOMAIN before :
    line \in DOMAIN after /\ Priority(after[line]) >= Priority(before[line])

\* C29: the class collectDiffLineKinds assigns to a line is the one of
\* highest priority among the changes that resolve to that line (changed over
\* removed over added), whatever the order of the change list: the same
\* changes in another order give the same two line maps, and no step of the
\* loop replaces the class of a line by one of lower priority.
C29_HighestPriorityKindWins ==
  diffResult.shown =>
    /\ IsHighestPriorityMap(diffResult.lineKinds.left, diffResult.changes, LeftLineMap,
                            {"changed", "removed"})
    /\ IsHighestPriorityMap(diffResult.lineKinds.right, diffResult.changes, RightLineMap,
                            {"changed", "added"})
    /\ collectDiffLineKinds(Reversed(diffResult.changes), LeftLineMap, RightLineMap)
         = diffResult.lineKinds
    /\ collectDiffLineKinds(Rotated(diffResult.changes), LeftLineMap, RightLineMap)
         = diffResult.lineKinds
    /\ Len(diffResult.changes) <= MaxPermuted =>
         \A p \in OrdersOf(Len(diffResult.changes)) :
           collectDiffLineKinds(Permuted(diffResult.changes, p), LeftLineMap, RightLineMap)
             = diffResult.lineKinds
    /\ \A n \in 1..Len(diffResult.changes) :
         /\ IsNeverLowered(LeftKindsFrom(diffResult.changes, n - 1, LeftLineMap),
                           LeftKindsFrom(diffResult.changes, n, LeftLineMap))
         /\ IsNeverLowered(RightKindsFrom(diffResult.changes, n - 1, RightLineMap),
                           RightKindsFrom(diffResult.changes, n, RightLineMap))

\* {"a":{"b":1},"a.b":1} against {"a":{"b":2}}: the Changed record at a.b and
\* the Removed record of the key "a.b" resolve to the same line on the left
C29_Witness ==
  /\ diffResult.shown
  /\ diffInput1 = Obj(<<Entry(KeyA, Obj(<<Entry(KeyB, Num(1))>>)), Entry(DottedKey, Num(1))>>)
  /\ diffInput2 = Obj(<<Entry(KeyA, Obj(<<Entry(KeyB, Num(2))>>))>>)
  /\ Len(diffResult.changes) = 2
  /\ diffResult.changes[1].type = "changed"
  /\ diffResult.changes[2].type = "removed"
  /\ resolvePathLine(diffResult.changes[1].path, LeftLineMap)
       = resolvePathLine(diffResult.changes[2].path, LeftLineMap)
  /\ diffResult.lineKinds.left[resolvePathLine(diffResult.changes[1].path, LeftLineMap)]
       = "diff-inline-changed"

(***************************************************************************)
(* Auto-format: one call of handleFormat for a burst of input events.      *)
(***************************************************************************)
\* the input event is the last of its burst: every later event comes Delay
\* or more after it
EndsBurst(j) ==
  \A k \in (j + 1)..Len(inputEvents) : inputEvents[k] - inputEvents[j] >= Delay

\* the input event is followed by a pause of more than Delay: an event that
\* comes exactly Delay after it can still be handled before its timeout runs
IsFollowedByPause(j) ==
  \A k \in (j + 1)..Len(inputEvents) : inputEvents[k] - inputEvents[j] > Delay

\* C30: with auto-format on, every call of handleFormat comes Delay (500 ms)
\* after the last input event of a burst, a burst being input events each
\* less than Delay after the one before; no burst gets two calls; and once
\* the clock is past an event by more than Delay with no other event in
\* between, the call for the burst that event ends has been made.
C30_OneFormatPerBurst ==
  autoFormat =>
    /\ \A c \in 1..Len(formatCalls) :
         \E j \in 1..Len(inputEvents) :
           EndsBurst(j) /\ formatCalls[c] = inputEvents[j] + Delay
    /\ \A c, d \in 1..Len(formatCalls) : c # d => formatCalls[c] # formatCalls[d]
    /\ \A j \in 1..Len(inputEvents) :
         (IsFollowedByPause(j) /\ now > inputEvents[j] + Delay) =>
           \E c \in 1..Len(formatCalls) : formatCalls[c] = inputEvents[j] + Delay

=============================================================================
